---- MODULE Spec2Model ----
(***************************************************************************)
(* A model of the domain-scan discovery engine: the Scanner orchestrator   *)
(* (passiveScanWithTracking / certificateScanWithTracking and the merge    *)
(* of probe results into outputDomains), the keyword helpers of            *)
(* pkg/utils/keywords.go and the passive enumerator wrapper.               *)
(*                                                                         *)
(* Hostnames and keywords are strings; the string functions of the Go      *)
(* code (ToLower, TrimSpace, Contains, HasPrefix, HasSuffix, Split,        *)
(* FieldsFunc) are computed character by character.                        *)
(***************************************************************************)
EXTENDS Integers, Sequences, FiniteSets, TLC

(***************************************************************************)
(* Bounds of the model.                                                    *)
(***************************************************************************)
\* recursion_depth is drawn from 0..MaxRecursionDepth (0 = unlimited)
MaxRecursionDepth == 2
\* max_domains is drawn from 0..MaxMaxDomains (0 = unlimited)
MaxMaxDomains == 2

(***************************************************************************)
(* Strings.                                                                *)
(***************************************************************************)
Char(s, i) == SubSeq(s, i, i)

UpperChars == "ABCDEFGHIJKLMNOPQRSTUVWXYZ"
LowerChars == "abcdefghijklmnopqrstuvwxyz"

\* unicode.ToLower on the ASCII letters, as a table
LowerTable ==
    [c \in {Char(UpperChars, i) : i \in 1..Len(UpperChars)} |->
        Char(LowerChars, CHOOSE i \in 1..Len(UpperChars) : Char(UpperChars, i) = c)]

LowerChar(c) == IF c \in DOMAIN LowerTable THEN LowerTable[c] ELSE c

RECURSIVE LowerUpTo(_, _)
LowerUpTo(s, n) ==
    IF n = 0 THEN "" ELSE LowerUpTo(s, n - 1) \o LowerChar(Char(s, n))

ToLower(s) == LowerUpTo(s, Len(s))

IsSpace(c) == c = " "

\* strings.TrimSpace: from the first to the last character that is no space
TrimSpace(s) ==
    LET keep == {i \in 1..Len(s) : ~IsSpace(Char(s, i))} IN
    IF keep = {} THEN ""
    ELSE SubSeq(s, CHOOSE i \in keep : \A j \in keep : i <= j,
                   CHOOSE i \in keep : \A j \in keep : j <= i)

HasPrefix(s, p) == Len(p) <= Len(s) /\ SubSeq(s, 1, Len(p)) = p

HasSuffix(s, p) == Len(p) <= Len(s) /\ SubSeq(s, Len(s) - Len(p) + 1, Len(s)) = p

Contains(s, k) ==
    \E i \in 1..(Len(s) - Len(k) + 1) : SubSeq(s, i, i + Len(k) - 1) = k

\* the parts of s between the characters of seps: one more than there are separators
SplitAny(s, seps) ==
    LET cut == {i \in 1..Len(s) : Char(s, i) \in seps} \cup {0, Len(s) + 1}
        nth(k) == CHOOSE i \in cut : Cardinality({j \in cut : j < i}) = k
    IN [k \in 1..(Cardinality(cut) - 1) |-> SubSeq(s, nth(k - 1) + 1, nth(k) - 1)]

\* strings.Split(s, sep) for a one-character separator
Split(s, sep) == SplitAny(s, {sep})

\* strings.FieldsFunc(s, f): the non-empty runs between the characters f accepts
FieldsFunc(s, seps) == SelectSeq(SplitAny(s, seps), LAMBDA p : p # "")

Range(seq) == {seq[i] : i \in 1..Len(seq)}

(***************************************************************************)
(* pkg/utils/keywords.go                                                   *)
(***************************************************************************)
\* the public-suffix set of getTLDs: the suffixes of the fallback list of loadTLDs
\* and, of the embedded list, the country suffixes that the tests rely on and
\* that lie under the two-level suffixes
TLDs == {"com", "org", "net", "edu", "gov", "co.uk", "co.in", "gov.in",
         "gov.uk", "ac.uk", "com.au", "org.au", "uk", "in", "au", "ca", "de"}

\* mutant: removes the shortest matching suffix
removeTLDs_Shortest(domain, tlds) ==
    LET m == {t \in tlds : HasSuffix(domain, "." \o t) \/ domain = t} IN
    IF m = {} THEN domain
    ELSE LET shortestTLD == CHOOSE t \in m : \A u \in m : Len(t) <= Len(u) IN
         IF domain = shortestTLD THEN ""
         ELSE SubSeq(domain, 1, Len(domain) - Len(shortestTLD) - 1)

removeTLDs(domain, tlds) ==
    LET m == {t \in tlds : HasSuffix(domain, "." \o t) \/ domain = t} IN
    IF m = {} THEN domain
    ELSE LET longestTLD == CHOOSE t \in m : \A u \in m : Len(u) <= Len(t) IN
         IF domain = longestTLD THEN ""
         ELSE SubSeq(domain, 1, Len(domain) - Len(longestTLD) - 1)

\* the body of the loop of ExtractKeywordsFromDomains, after the TLD is removed
OrgKeywords(domain) ==
    IF domain = "" THEN {}
    ELSE UNION {{p \in Range(FieldsFunc(parts[Len(parts)], {"-", "_"})) : Len(p) >= 2}
                 : parts \in {Split(domain, ".")}}

\* the keywords one domain contributes
DomainKeywords(d) ==
    UNION {OrgKeywords(removeTLDs(domain, TLDs)) : domain \in {ToLower(d)}}

ExtractKeywordsFromDomains(domains) ==
    UNION {DomainKeywords(domains[i]) : i \in 1..Len(domains)}

LoadKeywords(domains, keywordsInArgument) ==
    ExtractKeywordsFromDomains(domains)
      \cup {ToLower(TrimSpace(k)) : k \in {x \in Range(keywordsInArgument) : x # ""}}

\* mutant: compares without lower-casing
MatchesKeywords_CaseSensitive(domain, kws) ==
    IF kws = {} THEN TRUE
    ELSE \E k \in kws : Contains(domain, k)

MatchesKeywords(domain, kws) ==
    IF kws = {} THEN TRUE
    ELSE \E domainLower \in {ToLower(domain)} :
           \E k \in kws : \E keywordLower \in {ToLower(k)} :
              Contains(domainLower, keywordLower)

(***************************************************************************)
(* pkg/discovery/certificate.go: the filter of certificate SANs            *)
(***************************************************************************)
\* the suffix table of getOrganizationPart
OrgTLDs ==
    {"com", "net", "org", "edu", "gov", "mil", "biz", "info", "name", "pro", "int",
     "arpa", "app", "dev", "ai", "uk", "us", "ca", "au", "de", "fr", "jp", "in", "cn",
     "br", "mx", "nz", "za",
     "co.uk", "co.in", "co.za", "co.nz", "co.jp",
     "gov.in", "gov.uk", "gov.au", "gov.za",
     "ac.uk", "ac.in", "ac.za", "ac.nz",
     "com.au", "com.br", "com.cn", "com.mx", "com.ar",
     "net.au", "net.br", "net.cn", "net.mx", "net.nz",
     "org.au", "org.br", "org.cn", "org.mx", "org.nz", "org.za",
     "edu.au", "edu.br", "edu.cn", "edu.mx"}

\* getOrganizationPart, given parts = strings.Split(domain, "."): how many of
\* the last parts are taken off as the suffix
SuffixParts(parts) ==
    LET n == Len(parts) IN
    IF n >= 3
    THEN IF ToLower(parts[n - 1] \o "." \o parts[n]) \in OrgTLDs THEN 2
         ELSE IF ToLower(parts[n]) \in OrgTLDs THEN 1 ELSE 0
    ELSE IF n = 2 /\ ToLower(parts[n]) \in OrgTLDs THEN 1 ELSE 0

getOrganizationPart(domain) ==
    LET parts == Split(domain, ".") IN
    IF Len(parts) < 2 THEN ""
    ELSE parts[Len(parts) - SuffixParts(parts)]

containsKeyword(domain, keyword) ==
    \/ \E extracted \in ExtractKeywordsFromDomains(<<domain>>) :
          ToLower(extracted) = ToLower(keyword)
    \/ /\ getOrganizationPart(domain) # ""
       /\ Contains(ToLower(getOrganizationPart(domain)), ToLower(keyword))

(***************************************************************************)
(* The world outside the scanner: what a caller may pass, what subfinder   *)
(* may report and what a probed host may answer.                           *)
(***************************************************************************)
\* the requests a caller may pass to ScanWithOptions: Domains and Keywords
Request(domains, kws) == [Domains |-> domains, Keywords |-> kws]

ScanRequests ==
    { Request(<<>>, <<>>),
      Request(<<"ab.com">>, <<>>),
      Request(<<"ab.com", "ab.com">>, <<" ZZ ">>),
      Request(<<"ab.com", "c.net">>, <<>>) }

\* the host entries subfinder's ResultCallback may receive during one bulk
\* enumeration: nothing, one host reported by two sources, or un-normalised hosts
UpstreamReports ==
    { <<>>,
      <<"x.ab.com", "x.ab.com">>,
      <<"*.ab.com", "X.c.net">> }

\* what one probed target may answer: nothing, plain HTTP, or HTTP over TLS with a
\* certificate that lists sans
Down == [live |-> FALSE, tls |-> FALSE, sans |-> <<>>]
Http == [live |-> TRUE, tls |-> FALSE, sans |-> <<>>]
Tls(sans) == [live |-> TRUE, tls |-> TRUE, sans |-> sans]

\* the hosts of the modelled internet and the answers each may give; the
\* certificates form a cycle (ab.com lists x.ab.com, x.ab.com lists ab.com) and
\* the one of ab.com is shared with an unrelated organisation (zz.com)
HostAnswers(h) ==
    CASE h = "ab.com"   -> {Down, Http, Tls(<<"x.ab.com", "zz.com", "*.ab.com", "AB.net">>)}
      [] h = "x.ab.com" -> {Down, Tls(<<"ab.com", "ab.net">>)}
      [] h = "ab.net"   -> {Down, Tls(<<"ab.com">>)}
      [] h = "c.net"    -> {Down, Http}
      [] h = "zz.com"   -> {Http}
      [] OTHER          -> {Down}

ProbeAnswers == UNION {HostAnswers(h) : h \in {"ab.com", "x.ab.com", "ab.net", "c.net", "zz.com", ""}}

\* the answers a batch of targets may give
BatchAnswers(targets) ==
    {f \in [1..Len(targets) -> ProbeAnswers] :
        \A i \in 1..Len(targets) : f[i] \in HostAnswers(targets[i])}

(***************************************************************************)
(* types.DomainEntry and types.Source                                      *)
(***************************************************************************)
Source(name, type) == [Name |-> name, Type |-> type]

\* a DomainEntry as the Go zero value with the given Domain and Sources;
\* Redirect and Certificate are pointers: <<>> is nil, <<v>> points to v; IsLive is
\* the field the scanner reads and writes (the struct of types names it Reachable)
NewEntry(domain, sources) ==
    [Domain |-> domain, URL |-> "", Status |-> 0, IsLive |-> FALSE, IP |-> "",
     Redirect |-> <<>>, Certificate |-> <<>>, Sources |-> sources]

\* mutant: appends without looking for the pair
addSource_Always(entry, name, sourceType) ==
    [entry EXCEPT !.Sources = Append(@, Source(name, sourceType))]

addSource(entry, name, sourceType) ==
    IF \E i \in 1..Len(entry.Sources) :
          entry.Sources[i].Name = name /\ entry.Sources[i].Type = sourceType
    THEN entry
    ELSE [entry EXCEPT !.Sources = Append(@, Source(name, sourceType))]

RECURSIVE addSources(_, _)
addSources(entry, srcs) ==
    IF Len(srcs) = 0 THEN entry
    ELSE addSources(addSource(entry, Head(srcs).Name, Head(srcs).Type), Tail(srcs))

(***************************************************************************)
(* discovery.PassiveDiscoveryWithOptions: the unique hosts of the callback *)
(* stream, as a slice.  The Go code ranges over a map, so the order of the *)
(* slice is not fixed; the order of first report is the one modelled (the  *)
(* scanner only uses the slice as a batch).                                *)
(***************************************************************************)
RECURSIVE UniqueHosts(_, _)
UniqueHosts(reports, seen) ==
    IF Len(reports) = 0 THEN <<>>
    ELSE IF Head(reports) \in seen THEN UniqueHosts(Tail(reports), seen)
         ELSE <<Head(reports)>> \o UniqueHosts(Tail(reports), seen \cup {Head(reports)})

PassiveDiscoveryWithOptions(domains, reports) ==
    IF Len(domains) = 0 THEN <<>> ELSE UniqueHosts(reports, {})

(***************************************************************************)
(* discovery.BulkCertificateAnalysisForScanner, the bulk HTTP/TLS prober.  *)
(* One consolidated entry per target: a "traced" stub that a response      *)
(* upgrades; the SANs of the TLS handshakes that are no wildcard and pass  *)
(* the keyword filter are returned as new domains.                         *)
(***************************************************************************)
ProbeEntry(target, ans) ==
    LET stub == NewEntry(target, <<Source("traced", "passive")>>) IN
    IF ~ans.live THEN stub
    ELSE LET up == addSource([stub EXCEPT !.IsLive = TRUE,
                                          !.Status = 200,
                                          !.URL = (IF ans.tls THEN "https://" ELSE "http://") \o target,
                                          !.IP = "192.0.2.1"],
                             "httpx", "http")
         IN IF ans.tls
            THEN [addSource(up, "certificate", "certificate")
                    EXCEPT !.Certificate = <<[Issuer |-> "ca", Subject |-> target]>>]
            ELSE up

RECURSIVE RelevantSANs(_, _, _)
RelevantSANs(sans, kws, seen) ==
    IF Len(sans) = 0 THEN <<>>
    ELSE LET san == ToLower(Head(sans)) IN
         IF HasPrefix(san, "*.") \/ ~MatchesKeywords(san, kws) \/ san \in seen
         THEN RelevantSANs(Tail(sans), kws, seen)
         ELSE <<san>> \o RelevantSANs(Tail(sans), kws, seen \cup {san})

RECURSIVE AllSANs(_)
AllSANs(answers) ==
    IF Len(answers) = 0 THEN <<>>
    ELSE (IF Head(answers).tls THEN Head(answers).sans ELSE <<>>) \o AllSANs(Tail(answers))

BulkCertificateAnalysisForScanner(targets, kws, extractNewDomains, answers) ==
    [domainEntries |-> [i \in 1..Len(targets) |-> ProbeEntry(targets[i], answers[i])],
     newDomains |-> IF extractNewDomains THEN RelevantSANs(AllSANs(answers), kws, {})
                    ELSE <<>>]

(***************************************************************************)
(* The Scanner (domainscan): state.                                        *)
(***************************************************************************)
VARIABLES
    config,            \* Scanner.config.Discovery
    pc,                \* "idle": constructed; "running": inside ScanWithOptions; "done"
    seeds,             \* req.Domains
    keywords,          \* the keywords of the run
    outputDomains,     \* map[string]*DomainEntry
    processedDomains,  \* map[string]bool, as the set of its keys
    stack,             \* the pending calls of the mutual recursion, innermost last
    calls,             \* history: the calls made to the enumerator (C2) and the prober (C3)
    markDepth,         \* history: <<key, depth>> for every key put into processedDomains
    stats,             \* result.Statistics
    progress,          \* Scanner.progress is set (not nil)
    events,            \* history: the calls made to the progress callback
    returned,          \* <<>> until ScanWithOptions returns, then <<its return values>>
    extraKeywords,     \* req.Keywords
    mock,              \* <<>>, or <<the deterministic enumerator and prober in use>>
    previous,          \* <<>>, or <<the output of the scan made before this one>>
    applied,           \* <<>>, or <<a function of the packages applied to arguments>>
    dp,                \* <<>>, or the shared fields of a DomainProcessor
    procs,             \* <<>>, or the goroutines that use the DomainProcessor
    runs,              \* history: the discoveries and analyses the workers have run
    tracker            \* <<>>, or the fields of a DomainTracker

vars == <<config, pc, seeds, keywords, outputDomains, processedDomains, stack,
          calls, markDepth, stats, progress, events, returned,
          extraKeywords, mock, previous, applied, dp, procs, runs, tracker>>

Frame(fn, domains, depth) == [fn |-> fn, domains |-> domains, depth |-> depth]

Top == stack[Len(stack)]

Pop == SubSeq(stack, 1, Len(stack) - 1)

Replace(frame) == Append(Pop, frame)

NumDomains(out) == Cardinality(DOMAIN out)

(***************************************************************************)
(* Deterministic stand-ins for the enumerator and the prober: the answer   *)
(* of every host, the hosts every enumeration reports, and whether the     *)
(* calls fail. Without one (mock = <<>>) every call may get any answer.    *)
(***************************************************************************)
Mock(answers, reports, passiveFails, proberFails) ==
    [answers |-> answers, reports |-> reports,
     passiveFails |-> passiveFails, proberFails |-> proberFails]

\* every host gives the fullest of its answers
Shared ==
    [h \in {"ab.com", "x.ab.com", "ab.net", "c.net", "zz.com"} |->
        CASE h = "ab.com"   -> Tls(<<"x.ab.com", "zz.com", "*.ab.com", "AB.net">>)
          [] h = "x.ab.com" -> Tls(<<"ab.com", "ab.net">>)
          [] h = "ab.net"   -> Tls(<<"ab.com">>)
          [] OTHER          -> Http]

\* the certificates lead from one host to the next: ab.com, x.ab.com, ab.net
Chain ==
    [h \in {"ab.com", "x.ab.com", "ab.net"} |->
        CASE h = "ab.com"   -> Tls(<<"x.ab.com">>)
          [] h = "x.ab.com" -> Tls(<<"ab.net">>)
          [] OTHER          -> Http]

Mocks ==
    { Mock(Shared, <<"x.ab.com", "x.ab.com">>, FALSE, FALSE),
      Mock(Shared, <<"*.ab.com", "X.c.net">>, FALSE, FALSE),
      Mock(Chain, <<>>, FALSE, FALSE),
      Mock(Chain, <<"x.ab.com", "x.ab.com">>, FALSE, FALSE),
      Mock(Shared, <<>>, TRUE, FALSE),
      Mock(Shared, <<"x.ab.com", "x.ab.com">>, FALSE, TRUE),
      Mock(<<>>, <<>>, FALSE, FALSE) }

MockAnswer(h) == IF h \in DOMAIN mock[1].answers THEN mock[1].answers[h] ELSE Down

\* the answers the prober may get for a batch of targets
ProbeResponses(targets) ==
    IF mock = <<>> THEN BatchAnswers(targets)
    ELSE {[i \in 1..Len(targets) |-> MockAnswer(targets[i])]}

\* the reports the enumerator may get during one bulk enumeration
EnumeratorReports == IF mock = <<>> THEN UpstreamReports ELSE {mock[1].reports}

\* whether a call of the enumerator, of the prober, may return an error
EnumeratorFailure == IF mock = <<>> THEN BOOLEAN ELSE {mock[1].passiveFails}

ProberFailure == IF mock = <<>> THEN BOOLEAN ELSE {mock[1].proberFails}

(***************************************************************************)
(* The Scanner: helpers.                                                   *)
(***************************************************************************)
\* the loop shared by the three "filter what is unprocessed and mark it" places
RECURSIVE MarkUnprocessed(_, _, _)
MarkUnprocessed(domains, processed, keyPrefix) ==
    IF Len(domains) = 0 THEN [kept |-> <<>>, processed |-> processed]
    ELSE LET key == keyPrefix \o ":" \o Head(domains) IN
         IF key \in processed
         THEN MarkUnprocessed(Tail(domains), processed, keyPrefix)
         ELSE LET r == MarkUnprocessed(Tail(domains), processed \cup {key}, keyPrefix)
              IN [kept |-> <<Head(domains)>> \o r.kept, processed |-> r.processed]

\* passiveScanWithTracking, the loop on "passive:" keys
PassiveUnprocessed(domains, processed) == MarkUnprocessed(domains, processed, "passive")

\* mutant: filters against the map but never marks what it lets through
filterUnprocessedDomains_NoMark(domains, processed, keyPrefix) ==
    [kept |-> SelectSeq(domains, LAMBDA d : (keyPrefix \o ":" \o d) \notin processed),
     processed |-> processed]

filterUnprocessedDomains(domains, processed, keyPrefix) ==
    MarkUnprocessed(domains, processed, keyPrefix)

\* bulkAnalyzeAndMerge: the targets; a "cert" batch was filtered by the caller
TargetDomains(domains, processed, processKeyPrefix) ==
    IF processKeyPrefix # "cert"
    THEN MarkUnprocessed(domains, processed, processKeyPrefix)
    ELSE [kept |-> domains, processed |-> processed]

\* mutant: no host counts as a subdomain
isSubdomain_Never(domain) == FALSE

isSubdomain(domain) == Len(Split(domain, ".")) > 2

countLiveDomainsFromMap(out) == Cardinality({d \in DOMAIN out : out[d].IsLive})

MaxDomainsReached(out) ==
    config.MaxDomains > 0 /\ NumDomains(out) >= config.MaxDomains

\* passiveScanWithTracking: "Check recursion depth limit"
PassiveDepthLimit(depth) ==
    config.RecursionDepth > 0 /\ depth >= config.RecursionDepth

\* mutant: the depth check before the recursion loop is missing
RecursionDepthLimit_Off(depth) == FALSE

\* certificateScanWithTracking: "Check recursion depth limit"
RecursionDepthLimit(depth) ==
    config.RecursionDepth > 0 /\ depth + 1 >= config.RecursionDepth

\* mutant: creates the entries of new subdomains but records no source
RECURSIVE TrackPassive_NoSource(_, _)
TrackPassive_NoSource(subdomains, out) ==
    IF Len(subdomains) = 0 THEN out
    ELSE TrackPassive_NoSource(
             Tail(subdomains),
             IF Head(subdomains) \in DOMAIN out THEN out
             ELSE (Head(subdomains) :> NewEntry(Head(subdomains), <<>>)) @@ out)

\* passiveScanWithTracking: "Track passive discovery source for all discovered subdomains"
RECURSIVE TrackPassive(_, _)
TrackPassive(subdomains, out) ==
    IF Len(subdomains) = 0 THEN out
    ELSE LET subdomain == Head(subdomains)
             entry == IF subdomain \in DOMAIN out THEN out[subdomain]
                      ELSE NewEntry(subdomain, <<>>)
         IN TrackPassive(Tail(subdomains),
                         (subdomain :> addSource(entry, "subfinder", "passive")) @@ out)

\* mutant: the URL of an existing entry is kept (first arrival wins for it alone)
MergeEntry_KeepURL(domainEntry, out) ==
    IF domainEntry.Domain \in DOMAIN out
    THEN (domainEntry.Domain :>
            addSources([out[domainEntry.Domain] EXCEPT !.Status = domainEntry.Status,
                                                       !.IsLive = domainEntry.IsLive,
                                                       !.IP = domainEntry.IP,
                                                       !.Redirect = domainEntry.Redirect,
                                                       !.Certificate = domainEntry.Certificate],
                       domainEntry.Sources)) @@ out
    ELSE (domainEntry.Domain :> domainEntry) @@ out

\* mutant: the map is rebuilt from the entry that is merged
MergeEntry_Fresh(domainEntry, out) == (domainEntry.Domain :> domainEntry)

\* mergeDomainEntries: one entry
MergeEntry(domainEntry, out) ==
    IF domainEntry.Domain \in DOMAIN out
    THEN LET existing == out[domainEntry.Domain] IN
         (domainEntry.Domain :>
            addSources([existing EXCEPT !.Status = domainEntry.Status,
                                        !.IsLive = domainEntry.IsLive,
                                        !.URL = domainEntry.URL,
                                        !.IP = domainEntry.IP,
                                        !.Redirect = domainEntry.Redirect,
                                        !.Certificate = domainEntry.Certificate],
                       domainEntry.Sources)) @@ out
    ELSE (domainEntry.Domain :> domainEntry) @@ out

RECURSIVE mergeDomainEntries(_, _)
mergeDomainEntries(domainEntries, out) ==
    IF Len(domainEntries) = 0 THEN out
    ELSE mergeDomainEntries(Tail(domainEntries), MergeEntry(Head(domainEntries), out))

\* the return values of ScanWithOptions: whether the result is nil, and the error
Return(resultIsNil, err) == [resultIsNil |-> resultIsNil, err |-> err]

\* a call of the progress callback
Event(ev, domains, kws, total, live) ==
    [ev |-> ev, domains |-> domains, keywords |-> kws, total |-> total, live |-> live]

OnStart(domains, kws) == Event("on_start", domains, kws, 0, 0)

OnProgress(totalDomains, liveDomains) == Event("on_progress", <<>>, {}, totalDomains, liveDomains)

\* OnEnd(result), with the statistics of the result
OnEnd(st) == Event("on_end", <<>>, {}, st.TotalSubdomains, st.ActiveServices)

\* mutant: progress is reported once for a batch, after its last entry
mergeProgress_Once(domainEntries, out) ==
    IF Len(domainEntries) = 0 THEN <<>>
    ELSE <<OnProgress(NumDomains(mergeDomainEntries(domainEntries, out)),
                      countLiveDomainsFromMap(mergeDomainEntries(domainEntries, out)))>>

\* mergeDomainEntries, the calls of OnProgress: one after each entry, with the
\* size of the map and the running liveDomainCount, which starts at the number of
\* live entries of the map and goes up by one for every live entry merged
mergeProgress(domainEntries, out) ==
    [i \in 1..Len(domainEntries) |->
        OnProgress(
            NumDomains(mergeDomainEntries(SubSeq(domainEntries, 1, i), out)),
            countLiveDomainsFromMap(out)
              + Cardinality({j \in 1..i : domainEntries[j].IsLive}))]

\* mutant: the certificate scan hands the prober no keywords, as the HTTP
\* verification does
ProbeKeywords_None(processKeyPrefix, kws) == {}

\* the keywords a phase hands to the prober
ProbeKeywords(processKeyPrefix, kws) ==
    IF processKeyPrefix = "cert" THEN kws ELSE {}

\* mutant: every phase asks the prober for new domains
ExtractNewDomains_Always(processKeyPrefix) == TRUE

\* whether a phase asks the prober for new domains
ExtractNewDomains(processKeyPrefix) ==
    IF processKeyPrefix = "cert" THEN config.EnableCertificate ELSE FALSE

\* bulkAnalyzeAndMerge after the prober has answered (failed: it returned an error)
bulkAnalyzeAndMerge(targetDomains, kws, processKeyPrefix, out, answers, failed) ==
    IF Len(targetDomains) = 0 \/ failed
    THEN [out |-> out, newDomains |-> <<>>, progress |-> <<>>]
    ELSE LET r == BulkCertificateAnalysisForScanner(
                      targetDomains, ProbeKeywords(processKeyPrefix, kws),
                      ExtractNewDomains(processKeyPrefix), answers)
         IN [out |-> mergeDomainEntries(r.domainEntries, out),
             newDomains |-> r.newDomains,
             progress |-> mergeProgress(r.domainEntries, out)]

\* mutant: the recursion does not look at the recursive flag
StopBeforeRecursion_IgnoreFlag(depth) == RecursionDepthLimit(depth)

\* certificateScanWithTracking: the two returns between the merge and the loop
StopBeforeRecursion(depth) == ~config.Recursive \/ RecursionDepthLimit(depth)

Call(op, phase, targets, depth, ok, result) ==
    [op |-> op, phase |-> phase, targets |-> targets, depth |-> depth, ok |-> ok,
     result |-> result]

Marks(before, after, depth) == {<<k, depth>> : k \in after \ before}

(***************************************************************************)
(* The Scanner: the state after New(config), and the steps of a scan.      *)
(***************************************************************************)
Configs ==
    [EnablePassive : BOOLEAN, EnableCertificate : BOOLEAN, Recursive : BOOLEAN,
     RecursionDepth : 0..MaxRecursionDepth, MaxDomains : 0..MaxMaxDomains]

Init ==
    /\ config \in Configs
    /\ pc = "idle"
    /\ seeds = <<>>
    /\ keywords = {}
    /\ outputDomains = <<>>
    /\ processedDomains = {}
    /\ stack = <<>>
    /\ calls = <<>>
    /\ markDepth = {}
    /\ stats = [TotalSubdomains |-> 0, ActiveServices |-> 0, TracedDomains |-> 0]
    /\ progress = FALSE
    /\ events = <<>>
    /\ returned = <<>>
    /\ extraKeywords = <<>>
    /\ mock = <<>>
    /\ previous = <<>>
    /\ applied = <<>>
    /\ dp = <<>>
    /\ procs = <<>>
    /\ runs = <<>>
    /\ tracker = <<>>

\* SetProgressCallback, before the scan
SetProgressCallback ==
    /\ pc = "idle"
    /\ ~progress
    /\ progress' = TRUE
    /\ UNCHANGED <<dp, procs, runs, tracker, config, mock, previous, applied, extraKeywords,
                   pc, seeds, keywords, outputDomains, processedDomains, stack,
                   calls, markDepth, stats, events, returned>>

\* mutant: the request is validated only after the start of the scan was reported
ScanWithOptionsInvalid_Late ==
    /\ pc = "idle"
    /\ \E req \in ScanRequests :
         /\ Len(req.Domains) = 0
         /\ seeds' = req.Domains
         /\ extraKeywords' = req.Keywords
         /\ events' = IF progress
                      THEN Append(events,
                                  OnStart(req.Domains, LoadKeywords(req.Domains, req.Keywords)))
                      ELSE events
    /\ returned' = <<Return(TRUE, "ErrInvalidConfig")>>
    /\ pc' = "done"
    /\ UNCHANGED <<dp, procs, runs, tracker, config, mock, previous, applied, keywords, outputDomains,
                   processedDomains, stack, calls, markDepth, stats, progress>>

\* ScanWithOptions with no domains: it returns nil and an ErrInvalidConfig error
ScanWithOptionsInvalid ==
    /\ pc = "idle"
    /\ \E req \in ScanRequests :
         /\ Len(req.Domains) = 0
         /\ seeds' = req.Domains
         /\ extraKeywords' = req.Keywords
    /\ returned' = <<Return(TRUE, "ErrInvalidConfig")>>
    /\ pc' = "done"
    /\ UNCHANGED <<dp, procs, runs, tracker, config, mock, previous, applied, keywords, outputDomains,
                   processedDomains, stack, calls, markDepth, stats, progress, events>>

\* ScanWithOptions up to the call of passiveScanWithTracking(domains, ..., 0)
ScanWithOptions ==
    /\ pc = "idle"
    /\ \E req \in ScanRequests :
         /\ Len(req.Domains) # 0
         /\ seeds' = req.Domains
         /\ extraKeywords' = req.Keywords
         /\ keywords' = LoadKeywords(req.Domains, req.Keywords)
         /\ stack' = <<Frame("passive", req.Domains, 0)>>
         /\ events' = IF progress
                      THEN Append(events,
                                  OnStart(req.Domains, LoadKeywords(req.Domains, req.Keywords)))
                      ELSE events
    /\ pc' = "running"
    /\ UNCHANGED <<dp, procs, runs, tracker, config, mock, previous, applied, outputDomains, processedDomains,
                   calls, markDepth, stats, progress, returned>>

\* passiveScanWithTracking with passive discovery disabled: httpVerificationOnly,
\* then the certificate scan of the same domains if that is enabled
PassiveDisabled ==
    /\ pc = "running" /\ stack # <<>> /\ Top.fn = "passive"
    /\ ~config.EnablePassive
    /\ LET t == TargetDomains(Top.domains, processedDomains, "http") IN
       \E answers \in ProbeResponses(t.kept), failed \in ProberFailure :
         LET r == bulkAnalyzeAndMerge(t.kept, {}, "http", outputDomains, answers, failed) IN
         /\ outputDomains' = r.out
         /\ processedDomains' = t.processed
         /\ markDepth' = markDepth \cup Marks(processedDomains, t.processed, Top.depth)
         /\ calls' = IF Len(t.kept) = 0 THEN calls
                     ELSE Append(calls, Call("C3", "http", t.kept, Top.depth, ~failed, r.newDomains))
         /\ events' = IF progress THEN events \o r.progress ELSE events
    /\ stack' = IF config.EnableCertificate
                THEN Replace(Frame("cert", Top.domains, Top.depth))
                ELSE Pop
    /\ UNCHANGED <<dp, procs, runs, tracker, config, mock, previous, applied, extraKeywords,
                   pc, seeds, keywords, stats, progress, returned>>

\* passiveScanWithTracking returns before it calls the enumerator: the depth limit,
\* nothing unprocessed, or max domains reached
PassiveSkip ==
    /\ pc = "running" /\ stack # <<>> /\ Top.fn = "passive"
    /\ config.EnablePassive
    /\ IF PassiveDepthLimit(Top.depth)
       THEN UNCHANGED <<processedDomains, markDepth>>
       ELSE LET u == PassiveUnprocessed(Top.domains, processedDomains) IN
            /\ Len(u.kept) = 0 \/ MaxDomainsReached(outputDomains)
            /\ processedDomains' = u.processed
            /\ markDepth' = markDepth \cup Marks(processedDomains, u.processed, Top.depth)
    /\ stack' = Pop
    /\ UNCHANGED <<dp, procs, runs, tracker, config, mock, previous, applied, extraKeywords,
                   pc, seeds, keywords, outputDomains, calls, stats,
                   progress, events, returned>>

\* mutant: the enumeration does not look at enable_passive
PassiveCallGuard_NoGate(u) ==
    /\ pc = "running" /\ stack # <<>> /\ Top.fn = "passive"
    /\ ~PassiveDepthLimit(Top.depth)
    /\ Len(u.kept) > 0
    /\ ~MaxDomainsReached(outputDomains)

PassiveCallGuard(u) ==
    /\ pc = "running" /\ stack # <<>> /\ Top.fn = "passive"
    /\ config.EnablePassive
    /\ ~PassiveDepthLimit(Top.depth)
    /\ Len(u.kept) > 0
    /\ ~MaxDomainsReached(outputDomains)

\* passiveScanWithTracking when PassiveDiscoveryWithOptions returns an error
PassiveScanFail ==
    LET u == PassiveUnprocessed(IF stack # <<>> THEN Top.domains ELSE <<>>, processedDomains) IN
    /\ PassiveCallGuard(u)
    /\ TRUE \in EnumeratorFailure
    /\ processedDomains' = u.processed
    /\ markDepth' = markDepth \cup Marks(processedDomains, u.processed, Top.depth)
    /\ calls' = Append(calls, Call("C2", "passive", u.kept, Top.depth, FALSE, <<>>))
    /\ stack' = Pop
    /\ UNCHANGED <<dp, procs, runs, tracker, config, mock, previous, applied, extraKeywords,
                   pc, seeds, keywords, outputDomains, stats,
                   progress, events, returned>>

\* passiveScanWithTracking up to its call of certificateScanWithTracking, which is
\* its last statement
PassiveScan ==
    LET u == PassiveUnprocessed(IF stack # <<>> THEN Top.domains ELSE <<>>, processedDomains) IN
    /\ PassiveCallGuard(u)
    /\ FALSE \in EnumeratorFailure
    /\ \E reports \in EnumeratorReports :
         LET subdomains == PassiveDiscoveryWithOptions(u.kept, reports) IN
         /\ outputDomains' = TrackPassive(subdomains, outputDomains)
         /\ stack' = Replace(Frame("cert", u.kept \o subdomains, Top.depth))
         /\ calls' = Append(calls, Call("C2", "passive", u.kept, Top.depth, TRUE, subdomains))
    /\ processedDomains' = u.processed
    /\ markDepth' = markDepth \cup Marks(processedDomains, u.processed, Top.depth)
    /\ UNCHANGED <<dp, procs, runs, tracker, config, mock, previous, applied, extraKeywords,
                   pc, seeds, keywords, stats,
                   progress, events, returned>>

\* certificateScanWithTracking returns before it calls the prober: certificate
\* discovery disabled, max domains reached, an empty batch, or nothing unprocessed
CertSkip ==
    /\ pc = "running" /\ stack # <<>> /\ Top.fn = "cert"
    /\ IF ~config.EnableCertificate \/ MaxDomainsReached(outputDomains)
          \/ Len(Top.domains) = 0
       THEN UNCHANGED <<processedDomains, markDepth>>
       ELSE LET v == filterUnprocessedDomains(Top.domains, processedDomains, "cert") IN
            /\ Len(v.kept) = 0
            /\ processedDomains' = v.processed
            /\ markDepth' = markDepth \cup Marks(processedDomains, v.processed, Top.depth)
    /\ stack' = Pop
    /\ UNCHANGED <<dp, procs, runs, tracker, config, mock, previous, applied, extraKeywords,
                   pc, seeds, keywords, outputDomains, calls, stats,
                   progress, events, returned>>

CertCallGuard(v) ==
    /\ pc = "running" /\ stack # <<>> /\ Top.fn = "cert"
    /\ config.EnableCertificate
    /\ ~MaxDomainsReached(outputDomains)
    /\ Len(Top.domains) > 0
    /\ Len(v.kept) > 0

\* mutant: a prober error ends the whole scan instead of one subtree
CertScanFail_Abort ==
    LET v == filterUnprocessedDomains(IF stack # <<>> THEN Top.domains ELSE <<>>,
                                      processedDomains, "cert") IN
    /\ CertCallGuard(v)
    /\ TRUE \in ProberFailure
    /\ processedDomains' = v.processed
    /\ markDepth' = markDepth \cup Marks(processedDomains, v.processed, Top.depth)
    /\ calls' = Append(calls, Call("C3", "cert", v.kept, Top.depth, FALSE, <<>>))
    /\ stack' = <<>>
    /\ UNCHANGED <<dp, procs, runs, tracker, config, mock, previous, applied, extraKeywords,
                   pc, seeds, keywords, outputDomains, stats,
                   progress, events, returned>>

\* certificateScanWithTracking when the prober returns an error: no new domains,
\* so the recursion loop has nothing to do
CertScanFail ==
    LET v == filterUnprocessedDomains(IF stack # <<>> THEN Top.domains ELSE <<>>,
                                      processedDomains, "cert") IN
    /\ CertCallGuard(v)
    /\ TRUE \in ProberFailure
    /\ processedDomains' = v.processed
    /\ markDepth' = markDepth \cup Marks(processedDomains, v.processed, Top.depth)
    /\ calls' = Append(calls, Call("C3", "cert", v.kept, Top.depth, FALSE, <<>>))
    /\ stack' = Pop
    /\ UNCHANGED <<dp, procs, runs, tracker, config, mock, previous, applied, extraKeywords,
                   pc, seeds, keywords, outputDomains, stats,
                   progress, events, returned>>

\* certificateScanWithTracking up to its recursion loop
CertScan ==
    LET v == filterUnprocessedDomains(IF stack # <<>> THEN Top.domains ELSE <<>>,
                                      processedDomains, "cert") IN
    /\ CertCallGuard(v)
    /\ FALSE \in ProberFailure
    /\ \E answers \in ProbeResponses(v.kept) :
         LET r == bulkAnalyzeAndMerge(v.kept, keywords, "cert", outputDomains,
                                      answers, FALSE) IN
         /\ outputDomains' = r.out
         /\ calls' = Append(calls, Call("C3", "cert", v.kept, Top.depth, TRUE, r.newDomains))
         /\ events' = IF progress THEN events \o r.progress ELSE events
         /\ stack' = IF StopBeforeRecursion(Top.depth)
                     THEN Pop
                     ELSE Replace(Frame("recurse", r.newDomains, Top.depth))
    /\ processedDomains' = v.processed
    /\ markDepth' = markDepth \cup Marks(processedDomains, v.processed, Top.depth)
    /\ UNCHANGED <<dp, procs, runs, tracker, config, mock, previous, applied, extraKeywords,
                   pc, seeds, keywords, stats, progress, returned>>

\* the recursion loop of certificateScanWithTracking ends: no domain left, or max
\* domains reached
RecurseDone ==
    /\ pc = "running" /\ stack # <<>> /\ Top.fn = "recurse"
    /\ Len(Top.domains) = 0 \/ MaxDomainsReached(outputDomains)
    /\ stack' = Pop
    /\ UNCHANGED <<dp, procs, runs, tracker, config, mock, previous, applied, extraKeywords,
                   pc, seeds, keywords, outputDomains, processedDomains,
                   calls, markDepth, stats,
                   progress, events, returned>>

\* mutant: the new domain is added to the keywords of the call made for it
RecursionKeywords_Extended(kws, newDomain) == kws \cup {newDomain}

\* the keywords argument of the two recursive calls in the loop of
\* certificateScanWithTracking: the slice the function was called with
RecursionKeywords(kws, newDomain) == kws

\* mutant: the loop issues the call for a new domain but never moves past it
RecurseNext_NoAdvance ==
    /\ pc = "running" /\ stack # <<>> /\ Top.fn = "recurse"
    /\ Len(Top.domains) > 0 /\ ~MaxDomainsReached(outputDomains)
    /\ LET newDomain == Head(Top.domains) IN
       stack' = Append(stack,
                       Frame(IF isSubdomain(newDomain) THEN "cert" ELSE "passive",
                             <<newDomain>>, Top.depth + 1))
    /\ UNCHANGED <<dp, procs, runs, tracker, config, mock, previous, applied, extraKeywords,
                   pc, seeds, keywords, outputDomains, processedDomains,
                   calls, markDepth, stats,
                   progress, events, returned>>

\* one iteration of the recursion loop: the call for the next new domain
RecurseNext ==
    /\ pc = "running" /\ stack # <<>> /\ Top.fn = "recurse"
    /\ Len(Top.domains) > 0 /\ ~MaxDomainsReached(outputDomains)
    /\ LET newDomain == Head(Top.domains) IN
       /\ stack' = Append(Replace(Frame("recurse", Tail(Top.domains), Top.depth)),
                          Frame(IF isSubdomain(newDomain) THEN "cert" ELSE "passive",
                                <<newDomain>>, Top.depth + 1))
       /\ keywords' = RecursionKeywords(keywords, newDomain)
    /\ UNCHANGED <<dp, procs, runs, tracker, config, mock, previous, applied, extraKeywords,
                   pc, seeds, outputDomains, processedDomains,
                   calls, markDepth, stats,
                   progress, events, returned>>

\* ScanWithOptions after passiveScanWithTracking has returned: the statistics,
\* OnEnd, and the return of the result with a nil error
Finish ==
    /\ pc = "running" /\ stack = <<>>
    /\ pc' = "done"
    /\ stats' = [TotalSubdomains |-> NumDomains(outputDomains),
                 ActiveServices |-> countLiveDomainsFromMap(outputDomains),
                 TracedDomains |-> NumDomains(outputDomains)
                                     - countLiveDomainsFromMap(outputDomains)]
    /\ events' = IF progress THEN Append(events, OnEnd(stats')) ELSE events
    /\ returned' = <<Return(FALSE, "nil")>>
    /\ UNCHANGED <<dp, procs, runs, tracker, config, mock, previous, applied, extraKeywords,
                   seeds, keywords, outputDomains, processedDomains, stack,
                   calls, markDepth, progress>>

Next ==
    \/ SetProgressCallback
    \/ ScanWithOptionsInvalid
    \/ ScanWithOptions
    \/ PassiveDisabled
    \/ PassiveSkip
    \/ PassiveScanFail
    \/ PassiveScan
    \/ CertSkip
    \/ CertScanFail
    \/ CertScan
    \/ RecurseDone
    \/ RecurseNext
    \/ Finish

Spec == Init /\ [][Next]_vars

\* a sequential program always takes its next step
FairSpec == Spec /\ WF_vars(Next)

(***************************************************************************)
(* A second scan by the same Scanner, with deterministic stand-ins for the *)
(* enumerator and the prober.                                              *)
(***************************************************************************)
\* the sequences that list every element of a set once
Orders(S) == {order \in [1..Cardinality(S) -> S] : Range(order) = S}

\* mutant: the keys marked by the scan before are still marked
NewProcessedDomains_Kept == processedDomains

\* ScanWithOptions: processedDomains := make(map[string]bool)
NewProcessedDomains == {}

\* ScanWithOptions: outputDomains := make(map[string]*DomainEntry)
NewOutputDomains == <<>>

\* ScanWithOptions, called for domains after a scan has returned its result, up to
\* the call of passiveScanWithTracking(domains, ..., 0); the keywords of the
\* request are those of the first request
ScanAgain(domains, kind) ==
    /\ pc = "done"
    /\ previous = <<>>
    /\ returned = <<Return(FALSE, "nil")>>
    /\ Len(domains) # 0
    /\ previous' = <<[kind |-> kind, Domains |-> outputDomains, keywords |-> keywords]>>
    /\ seeds' = domains
    /\ keywords' = LoadKeywords(domains, extraKeywords)
    /\ outputDomains' = NewOutputDomains
    /\ processedDomains' = NewProcessedDomains
    /\ stack' = <<Frame("passive", domains, 0)>>
    /\ calls' = <<>>
    /\ markDepth' = {}
    /\ events' = IF progress
                 THEN Append(events, OnStart(domains, LoadKeywords(domains, extraKeywords)))
                 ELSE events
    /\ returned' = <<>>
    /\ pc' = "running"
    /\ UNCHANGED <<dp, procs, runs, tracker, config, mock, applied, extraKeywords, stats, progress>>

\* the same request a second time
ScanSameRequest == ScanAgain(seeds, "same")

\* the keys of the output as the domains of a second request, in any order
ScanOutputKeys ==
    /\ pc = "done"
    /\ previous = <<>>
    /\ \E order \in Orders(DOMAIN outputDomains) : ScanAgain(order, "keys")

RerunInit ==
    /\ config \in Configs
    /\ pc = "idle"
    /\ seeds = <<>>
    /\ keywords = {}
    /\ outputDomains = <<>>
    /\ processedDomains = {}
    /\ stack = <<>>
    /\ calls = <<>>
    /\ markDepth = {}
    /\ stats = [TotalSubdomains |-> 0, ActiveServices |-> 0, TracedDomains |-> 0]
    /\ progress = FALSE
    /\ events = <<>>
    /\ returned = <<>>
    /\ extraKeywords = <<>>
    /\ mock \in {<<m>> : m \in Mocks}
    /\ previous = <<>>
    /\ applied = <<>>
    /\ dp = <<>>
    /\ procs = <<>>
    /\ runs = <<>>
    /\ tracker = <<>>

RerunNext ==
    \/ ScanWithOptions
    \/ PassiveDisabled
    \/ PassiveSkip
    \/ PassiveScanFail
    \/ PassiveScan
    \/ CertSkip
    \/ CertScanFail
    \/ CertScan
    \/ RecurseDone
    \/ RecurseNext
    \/ Finish
    \/ ScanSameRequest
    \/ ScanOutputKeys

RerunSpec == RerunInit /\ [][RerunNext]_vars

(***************************************************************************)
(* The recursion loop when the prober may list the new domains of a batch  *)
(* in any order: the loop takes them in the order of the slice it was      *)
(* given, so each run visits them in one of the possible orders. A second  *)
(* scan of the same request then shows what the order changes.             *)
(***************************************************************************)
RecurseAny ==
    /\ pc = "running" /\ stack # <<>> /\ Top.fn = "recurse"
    /\ Len(Top.domains) > 0 /\ ~MaxDomainsReached(outputDomains)
    /\ \E i \in 1..Len(Top.domains) :
         /\ stack' = Append(Replace(Frame("recurse",
                                          SubSeq(Top.domains, 1, i - 1)
                                            \o SubSeq(Top.domains, i + 1, Len(Top.domains)),
                                          Top.depth)),
                            Frame(IF isSubdomain(Top.domains[i]) THEN "cert" ELSE "passive",
                                  <<Top.domains[i]>>, Top.depth + 1))
         /\ keywords' = RecursionKeywords(keywords, Top.domains[i])
    /\ UNCHANGED <<dp, procs, runs, tracker, config, mock, previous, applied, extraKeywords,
                   pc, seeds, outputDomains, processedDomains,
                   calls, markDepth, stats,
                   progress, events, returned>>

OrderNext ==
    \/ ScanWithOptions
    \/ PassiveDisabled
    \/ PassiveSkip
    \/ PassiveScanFail
    \/ PassiveScan
    \/ CertSkip
    \/ CertScanFail
    \/ CertScan
    \/ RecurseDone
    \/ RecurseAny
    \/ Finish
    \/ ScanSameRequest

OrderSpec == RerunInit /\ [][OrderNext]_vars

(***************************************************************************)
(* The functions of pkg/utils and pkg/discovery, applied on their own to   *)
(* arguments drawn from small sets.                                        *)
(***************************************************************************)
SeedNames ==
    {"apple.com", "apple.co.uk", "api.apple.co.uk", "API.Example.CO.UK",
     "rolls-royce.co.uk", "a_b-cd.org", "foo.co.uk.com", "example.local",
     "c.net", "com", "co.uk", ""}

\* the lists of at most two seeds
DomainLists == {<<>>} \cup {<<d>> : d \in SeedNames} \cup {<<d, e>> : d, e \in SeedNames}

\* operator extras: none, padded, upper case, the empty string, only white space
ExtraLists == {<<>>, <<" ZZ ">>, <<"Apple", "zz">>, <<"">>, <<" ">>, <<"ab", "  ">>}

Hostnames ==
    {"status.apple.com", "STATUS.Apple.COM", "status.microsoft.com",
     "iphone.dev.example.com", "test.apple-services.com", "apple.co.uk", "localhost", ""}

KeywordSets ==
    {{}, {"apple"}, {"APPLE"}, {"iphone"}, {"soft", "zz"}, {"zz", "yy"}, {"status.apple"}, {""}}

Applied(fn, args, value) == <<[fn |-> fn, args |-> args, value |-> value]>>

ApplyExtractKeywordsFromDomains ==
    /\ applied = <<>>
    /\ \E domains \in DomainLists :
         applied' = Applied("ExtractKeywordsFromDomains", <<domains>>,
                            ExtractKeywordsFromDomains(domains))
    /\ UNCHANGED <<dp, procs, runs, tracker, config, pc, seeds, keywords, outputDomains, processedDomains, stack,
                   calls, markDepth, stats, progress, events, returned,
                   extraKeywords, mock, previous>>

ApplyLoadKeywords ==
    /\ applied = <<>>
    /\ \E domains \in DomainLists, keywordsInArgument \in ExtraLists :
         applied' = Applied("LoadKeywords", <<domains, keywordsInArgument>>,
                            LoadKeywords(domains, keywordsInArgument))
    /\ UNCHANGED <<dp, procs, runs, tracker, config, pc, seeds, keywords, outputDomains, processedDomains, stack,
                   calls, markDepth, stats, progress, events, returned,
                   extraKeywords, mock, previous>>

ApplyMatchesKeywords ==
    /\ applied = <<>>
    /\ \E domain \in Hostnames, kws \in KeywordSets :
         applied' = Applied("MatchesKeywords", <<domain, kws>>, MatchesKeywords(domain, kws))
    /\ UNCHANGED <<dp, procs, runs, tracker, config, pc, seeds, keywords, outputDomains, processedDomains, stack,
                   calls, markDepth, stats, progress, events, returned,
                   extraKeywords, mock, previous>>

ApplyContainsKeyword ==
    /\ applied = <<>>
    /\ \E domain \in Hostnames, keyword \in UNION KeywordSets :
         applied' = Applied("containsKeyword", <<domain, keyword>>,
                            containsKeyword(domain, keyword))
    /\ UNCHANGED <<dp, procs, runs, tracker, config, pc, seeds, keywords, outputDomains, processedDomains, stack,
                   calls, markDepth, stats, progress, events, returned,
                   extraKeywords, mock, previous>>

\* the Scanner of New(nil)
DefaultConfig ==
    [EnablePassive |-> TRUE, EnableCertificate |-> TRUE, Recursive |-> TRUE,
     RecursionDepth |-> 0, MaxDomains |-> 0]

FunctionsInit == Init /\ config = DefaultConfig

FunctionsNext ==
    \/ ApplyExtractKeywordsFromDomains
    \/ ApplyLoadKeywords
    \/ ApplyMatchesKeywords
    \/ ApplyContainsKeyword

FunctionsSpec == FunctionsInit /\ [][FunctionsNext]_vars

(***************************************************************************)
(* pkg/domainscan/domain_state.go: the DomainTracker. A Go map is a        *)
(* function on the set of its keys; reading a missing key gives the zero   *)
(* value, assigning to one adds it, deleting one is no error.              *)
(***************************************************************************)
PassiveCompleted == 1

CertificateCompleted == 2

LivenessCompleted == 4

\* state | flag, for a flag of one bit
BitOr(state, flag) == IF (state \div flag) % 2 = 1 THEN state ELSE state + flag

\* m[key], with zero for a missing key
MapGet(m, key, zero) == IF key \in DOMAIN m THEN m[key] ELSE zero

\* m[key] = value
MapPut(m, key, value) == (key :> value) @@ m

NewDomainTracker(ports) ==
    [allDomains |-> {}, domainStates |-> <<>>, portCertStates |-> <<>>,
     pendingPassive |-> {}, pendingCertificate |-> {}, pendingLiveness |-> {},
     requiredPorts |-> IF Len(ports) = 0 THEN <<443, 80>> ELSE ports,
     currentRound |-> 1]

allRequiredPortsScanned(dt, domain) ==
    /\ domain \in DOMAIN dt.portCertStates
    /\ \A i \in 1..Len(dt.requiredPorts) :
         dt.requiredPorts[i] \in dt.portCertStates[domain]

IsCertificateCompleted(dt, domain, port) ==
    /\ domain \in DOMAIN dt.portCertStates
    /\ port \in dt.portCertStates[domain]

GetPendingCertificate(dt) == dt.pendingCertificate

\* the tracker after AddDomain(name)
AddDomainTracked(dt, name) ==
    LET domain == ToLower(TrimSpace(name)) IN
    IF domain = "" \/ domain \in dt.allDomains THEN dt
    ELSE [dt EXCEPT !.allDomains = @ \cup {domain},
                    !.domainStates = MapPut(@, domain, 0),
                    !.pendingPassive = @ \cup {domain},
                    !.pendingCertificate = @ \cup {domain},
                    !.pendingLiveness = @ \cup {domain}]

\* the tracker after MarkPassiveCompleted(domain)
PassiveMarked(dt, domain) ==
    [dt EXCEPT !.domainStates =
                   MapPut(@, domain, BitOr(MapGet(@, domain, 0), PassiveCompleted)),
               !.pendingPassive = @ \ {domain}]

\* the tracker after MarkLivenessCompleted(domain)
LivenessMarked(dt, domain) ==
    [dt EXCEPT !.domainStates =
                   MapPut(@, domain, BitOr(MapGet(@, domain, 0), LivenessCompleted)),
               !.pendingLiveness = @ \ {domain}]

\* the tracker after MarkCertificateCompleted(domain, port)
CertificateMarked(dt, domain, port) ==
    LET ported == [dt EXCEPT !.portCertStates =
                                 MapPut(@, domain, MapGet(@, domain, {}) \cup {port})]
        live == LivenessMarked(ported, domain)
    IN IF allRequiredPortsScanned(live, domain)
       THEN [live EXCEPT !.domainStates =
                             MapPut(@, domain,
                                    BitOr(MapGet(@, domain, 0), CertificateCompleted)),
                         !.pendingCertificate = @ \ {domain}]
       ELSE live

\* the names the operations of the tracker are called with
TrackerNames == {"ab.com", " AB.com ", ""}

TrackerInit ==
    /\ config = DefaultConfig
    /\ pc = "idle"
    /\ seeds = <<>>
    /\ keywords = {}
    /\ outputDomains = <<>>
    /\ processedDomains = {}
    /\ stack = <<>>
    /\ calls = <<>>
    /\ markDepth = {}
    /\ stats = [TotalSubdomains |-> 0, ActiveServices |-> 0, TracedDomains |-> 0]
    /\ progress = FALSE
    /\ events = <<>>
    /\ returned = <<>>
    /\ extraKeywords = <<>>
    /\ mock = <<>>
    /\ previous = <<>>
    /\ applied = <<>>
    /\ dp = <<>>
    /\ procs = <<>>
    /\ runs = <<>>
    /\ tracker \in {NewDomainTracker(ports) : ports \in {<<>>, <<443>>, <<80, 443>>}}

AddDomain ==
    /\ \E name \in TrackerNames : tracker' = AddDomainTracked(tracker, name)
    /\ UNCHANGED <<dp, procs, runs, config, pc, seeds, keywords, outputDomains,
                   processedDomains, stack, calls, markDepth, stats, progress, events,
                   returned, extraKeywords, mock, previous, applied>>

MarkPassiveCompleted ==
    /\ \E domain \in TrackerNames : tracker' = PassiveMarked(tracker, domain)
    /\ UNCHANGED <<dp, procs, runs, config, pc, seeds, keywords, outputDomains,
                   processedDomains, stack, calls, markDepth, stats, progress, events,
                   returned, extraKeywords, mock, previous, applied>>

MarkBatchPassiveCompleted ==
    /\ \E first \in TrackerNames : \E second \in TrackerNames :
         tracker' = PassiveMarked(PassiveMarked(tracker, first), second)
    /\ UNCHANGED <<dp, procs, runs, config, pc, seeds, keywords, outputDomains,
                   processedDomains, stack, calls, markDepth, stats, progress, events,
                   returned, extraKeywords, mock, previous, applied>>

MarkCertificateCompleted ==
    /\ \E domain \in TrackerNames : \E port \in {443, 80} :
         tracker' = CertificateMarked(tracker, domain, port)
    /\ UNCHANGED <<dp, procs, runs, config, pc, seeds, keywords, outputDomains,
                   processedDomains, stack, calls, markDepth, stats, progress, events,
                   returned, extraKeywords, mock, previous, applied>>

MarkLivenessCompleted ==
    /\ \E domain \in TrackerNames : tracker' = LivenessMarked(tracker, domain)
    /\ UNCHANGED <<dp, procs, runs, config, pc, seeds, keywords, outputDomains,
                   processedDomains, stack, calls, markDepth, stats, progress, events,
                   returned, extraKeywords, mock, previous, applied>>

TrackerNext ==
    \/ AddDomain
    \/ MarkPassiveCompleted
    \/ MarkBatchPassiveCompleted
    \/ MarkCertificateCompleted
    \/ MarkLivenessCompleted

TrackerSpec == TrackerInit /\ [][TrackerNext]_vars

(***************************************************************************)
(* pkg/domainscan/queue.go: the DomainProcessor. The two channels are      *)
(* dp.queue["passive"] (passiveQueue) and dp.queue["cert"]                 *)
(* (certificateQueue), the two maps of processed domains are               *)
(* dp.processed["passive"] (processedPassive) and dp.processed["cert"]     *)
(* (processedCert). dp.mu is <<>> when the mutex is free; the sections     *)
(* between Lock and Unlock are single steps, and only a goroutine that     *)
(* waits in the select of QueuePassive or QueueCertificate holds the mutex *)
(* from one step to the next (dp.mu = <<that goroutine>>).                 *)
(* The goroutines are the caller <<"main", 0>> and the workers             *)
(* <<"passive", i>> and <<"cert", i>>; procs[p].pc is where p stands:      *)
(*   main:    "new", "calls", "send", "wait" (in wg.Wait), "returned"      *)
(*   workers: "unstarted", "idle" (in the select of the worker loop),      *)
(*            "lock" (at the Lock of process...Message), "run" (in the     *)
(*            discovery call), "fail" and "merge" (at the Lock after it),  *)
(*            "loop" (at the head of the loop over the result), "enter"    *)
(*            (at the Lock of Queue...), "send", "stopped"                 *)
(***************************************************************************)
QueueCapacity == 1

PassiveWorkers == 2

CertificateWorkers == 2

MaxQueueCalls == 4

Main == <<"main", 0>>

WorkersOf(q) ==
    {q} \X (1..(IF q = "passive" THEN PassiveWorkers ELSE CertificateWorkers))

Procs == {Main} \cup WorkersOf("passive") \cup WorkersOf("cert")

\* the answers of discovery.PassiveDiscovery for one domain
PassiveOutcomes(domain) ==
    IF domain = "ab.com"
    THEN {[err |-> TRUE, live |-> FALSE, found |-> <<>>],
          [err |-> FALSE, live |-> FALSE, found |-> <<"x.ab.com", "zz.com">>]}
    ELSE {[err |-> FALSE, live |-> FALSE, found |-> <<>>]}

\* the answers of discovery.CertificateAnalysisSimple for one domain: whether
\* there were web assets, and the new domains; it returns no error
CertificateOutcomes(domain) ==
    CASE domain = "ab.com"   -> {[err |-> FALSE, live |-> TRUE, found |-> <<"ab.net">>],
                                 [err |-> FALSE, live |-> FALSE, found |-> <<>>]}
      [] domain = "x.ab.com" -> {[err |-> FALSE, live |-> TRUE, found |-> <<"ab.com">>]}
      [] OTHER               -> {[err |-> FALSE, live |-> FALSE, found |-> <<>>]}

IsRelevantDomain(kws, domain) ==
    kws = {} \/ \E keyword \in kws : Contains(ToLower(domain), ToLower(keyword))

NewDomainProcessor(kws, enablePassive, enableCert) ==
    [queue |-> [q \in {"passive", "cert"} |-> <<>>],
     processed |-> [q \in {"passive", "cert"} |-> {}],
     allDomains |-> {}, liveDomains |-> {}, keywords |-> kws,
     enablePassive |-> enablePassive, enableCert |-> enableCert,
     ctxDone |-> FALSE, errors |-> 0, mu |-> <<>>]

\* a goroutine: the message it works on, the rest of the result it loops over,
\* the domain it queues and the queue it sends to, the calls it has left
Goroutine(at, left) ==
    [pc |-> at, msg |-> "", pending |-> <<>>, live |-> FALSE,
     target |-> "", to |-> "", calls |-> left]

ProcessorInit ==
    /\ config = DefaultConfig
    /\ pc = "idle"
    /\ seeds = <<>>
    /\ keywords = {}
    /\ outputDomains = <<>>
    /\ processedDomains = {}
    /\ stack = <<>>
    /\ calls = <<>>
    /\ markDepth = {}
    /\ stats = [TotalSubdomains |-> 0, ActiveServices |-> 0, TracedDomains |-> 0]
    /\ progress = FALSE
    /\ events = <<>>
    /\ returned = <<>>
    /\ extraKeywords = <<>>
    /\ mock = <<>>
    /\ previous = <<>>
    /\ applied = <<>>
    /\ tracker = <<>>
    /\ dp \in {NewDomainProcessor({"ab"}, enablePassive, enableCert) :
                  enablePassive \in BOOLEAN, enableCert \in BOOLEAN}
    /\ procs = [p \in Procs |->
                   IF p = Main THEN Goroutine("new", MaxQueueCalls)
                   ELSE Goroutine("unstarted", 0)]
    /\ runs = [passive |-> <<>>, cert |-> <<>>, found |-> {}]

\* the goroutine g of p after its call of QueuePassive or QueueCertificate has
\* returned: the caller goes on, a worker goes on with its loop or, at the end of
\* the loop, returns to the select of the worker loop
AfterQueue(p, g) ==
    IF p = Main THEN [g EXCEPT !.pc = "calls", !.target = "", !.to = ""]
    ELSE IF g.pending = <<>> THEN Goroutine("idle", 0)
    ELSE [g EXCEPT !.pc = "loop", !.target = "", !.to = ""]

\* QueuePassive (q = "passive") or QueueCertificate (q = "cert") called by p, from
\* the Lock to the return, or to the select when the channel is full
Queue(p, q, domain) ==
    LET g == [procs[p] EXCEPT !.calls = IF p = Main THEN @ - 1 ELSE @] IN
    /\ dp.mu = <<>>
    /\ IF domain \in dp.processed[q]
       THEN /\ dp' = dp
            /\ procs' = [procs EXCEPT ![p] = AfterQueue(p, g)]
       ELSE \/ /\ Len(dp.queue[q]) < QueueCapacity
               /\ dp' = [dp EXCEPT !.queue[q] = Append(@, domain)]
               /\ procs' = [procs EXCEPT ![p] = AfterQueue(p, g)]
            \/ /\ dp.ctxDone
               /\ dp' = dp
               /\ procs' = [procs EXCEPT ![p] = AfterQueue(p, g)]
            \/ /\ Len(dp.queue[q]) >= QueueCapacity
               /\ ~dp.ctxDone
               /\ dp' = [dp EXCEPT !.mu = <<p>>]
               /\ procs' = [procs EXCEPT ![p] = [g EXCEPT !.pc = "send",
                                                          !.target = domain,
                                                          !.to = q]]

\* Start: the workers of the enabled kinds
Start ==
    /\ dp # <<>> /\ procs[Main].pc = "new"
    /\ procs' = [p \in Procs |->
                    IF p = Main THEN [procs[p] EXCEPT !.pc = "calls"]
                    ELSE IF (p[1] = "passive" /\ dp.enablePassive)
                            \/ (p[1] = "cert" /\ dp.enableCert)
                         THEN [procs[p] EXCEPT !.pc = "idle"]
                         ELSE procs[p]]
    /\ UNCHANGED <<dp, runs, tracker, config, pc, seeds, keywords, outputDomains,
                   processedDomains, stack, calls, markDepth, stats, progress, events,
                   returned, extraKeywords, mock, previous, applied>>

\* AddDomain, called by the caller for a seed
ProcessorAddDomain ==
    /\ dp # <<>> /\ procs[Main].pc = "calls"
    /\ dp.mu = <<>>
    /\ "ab.com" \notin dp.allDomains
    /\ dp' = [dp EXCEPT !.allDomains = @ \cup {"ab.com"}]
    /\ UNCHANGED <<procs, runs, tracker, config, pc, seeds, keywords, outputDomains,
                   processedDomains, stack, calls, markDepth, stats, progress, events,
                   returned, extraKeywords, mock, previous, applied>>

\* QueuePassive or QueueCertificate, called by the caller for a seed
QueueSeed ==
    /\ dp # <<>> /\ procs[Main].pc = "calls" /\ procs[Main].calls > 0
    /\ \E q \in {"passive", "cert"} : Queue(Main, q, "ab.com")
    /\ UNCHANGED <<runs, tracker, config, pc, seeds, keywords, outputDomains,
                   processedDomains, stack, calls, markDepth, stats, progress, events,
                   returned, extraKeywords, mock, previous, applied>>

\* the select of QueuePassive or QueueCertificate after the channel was found
\* full: the send goes through, or the context is done; then the Unlock
Send(p) ==
    /\ dp # <<>> /\ procs[p].pc = "send"
    /\ \/ /\ Len(dp.queue[procs[p].to]) < QueueCapacity
          /\ dp' = [dp EXCEPT !.queue[procs[p].to] = Append(@, procs[p].target),
                              !.mu = <<>>]
       \/ /\ dp.ctxDone
          /\ dp' = [dp EXCEPT !.mu = <<>>]
    /\ procs' = [procs EXCEPT ![p] = AfterQueue(p, procs[p])]
    /\ UNCHANGED <<runs, tracker, config, pc, seeds, keywords, outputDomains,
                   processedDomains, stack, calls, markDepth, stats, progress, events,
                   returned, extraKeywords, mock, previous, applied>>

\* passiveWorker, certificateWorker: a message is received
Receive(p) ==
    /\ dp # <<>> /\ procs[p].pc = "idle"
    /\ dp.queue[p[1]] # <<>>
    /\ dp' = [dp EXCEPT !.queue[p[1]] = Tail(@)]
    /\ procs' = [procs EXCEPT ![p].pc = "lock", ![p].msg = Head(dp.queue[p[1]])]
    /\ UNCHANGED <<runs, tracker, config, pc, seeds, keywords, outputDomains,
                   processedDomains, stack, calls, markDepth, stats, progress, events,
                   returned, extraKeywords, mock, previous, applied>>

\* passiveWorker, certificateWorker: the context is done
WorkerStop(p) ==
    /\ dp # <<>> /\ procs[p].pc = "idle"
    /\ dp.ctxDone
    /\ procs' = [procs EXCEPT ![p].pc = "stopped"]
    /\ UNCHANGED <<dp, runs, tracker, config, pc, seeds, keywords, outputDomains,
                   processedDomains, stack, calls, markDepth, stats, progress, events,
                   returned, extraKeywords, mock, previous, applied>>

\* mutant: the message is taken up whether or not its domain was processed
AlreadyProcessed_Never(q, domain) == FALSE

\* processPassiveMessage, processCertificateMessage: "Skip duplicates"
AlreadyProcessed(q, domain) == domain \in dp.processed[q]

\* processPassiveMessage, processCertificateMessage: the first locked section
ProcessMessage(p) ==
    /\ dp # <<>> /\ procs[p].pc = "lock"
    /\ dp.mu = <<>>
    /\ IF AlreadyProcessed(p[1], procs[p].msg)
       THEN /\ dp' = dp
            /\ procs' = [procs EXCEPT ![p] = Goroutine("idle", 0)]
       ELSE /\ dp' = [dp EXCEPT !.processed[p[1]] = @ \cup {procs[p].msg}]
            /\ procs' = [procs EXCEPT ![p].pc = "run"]
    /\ UNCHANGED <<runs, tracker, config, pc, seeds, keywords, outputDomains,
                   processedDomains, stack, calls, markDepth, stats, progress, events,
                   returned, extraKeywords, mock, previous, applied>>

\* the call of discovery.PassiveDiscovery or discovery.CertificateAnalysisSimple
\* for the domain of the message returns
Discover(p) ==
    /\ dp # <<>> /\ procs[p].pc = "run"
    /\ \E r \in IF p[1] = "passive" THEN PassiveOutcomes(procs[p].msg)
                                    ELSE CertificateOutcomes(procs[p].msg) :
         procs' = [procs EXCEPT ![p].pc = IF r.err THEN "fail" ELSE "merge",
                                ![p].pending = r.found,
                                ![p].live = r.live]
    /\ runs' = [runs EXCEPT ![p[1]] = Append(@, procs[p].msg)]
    /\ UNCHANGED <<dp, tracker, config, pc, seeds, keywords, outputDomains,
                   processedDomains, stack, calls, markDepth, stats, progress, events,
                   returned, extraKeywords, mock, previous, applied>>

\* the error of the discovery is appended to dp.errors, and the worker returns
RecordError(p) ==
    /\ dp # <<>> /\ procs[p].pc = "fail"
    /\ dp.mu = <<>>
    /\ dp' = [dp EXCEPT !.errors = @ + 1]
    /\ procs' = [procs EXCEPT ![p] = Goroutine("idle", 0)]
    /\ UNCHANGED <<runs, tracker, config, pc, seeds, keywords, outputDomains,
                   processedDomains, stack, calls, markDepth, stats, progress, events,
                   returned, extraKeywords, mock, previous, applied>>

\* processCertificateMessage: the assets are appended and the domain is marked
\* live if there were web assets; processPassiveMessage has no such section
MergeAssets(p) ==
    /\ dp # <<>> /\ procs[p].pc = "merge"
    /\ p[1] = "cert" => dp.mu = <<>>
    /\ dp' = IF p[1] = "cert" /\ procs[p].live
             THEN [dp EXCEPT !.liveDomains = @ \cup {procs[p].msg}]
             ELSE dp
    /\ procs' = [procs EXCEPT ![p] = IF procs[p].pending = <<>>
                                      THEN Goroutine("idle", 0)
                                      ELSE [procs[p] EXCEPT !.pc = "loop",
                                                            !.live = FALSE]]
    /\ UNCHANGED <<runs, tracker, config, pc, seeds, keywords, outputDomains,
                   processedDomains, stack, calls, markDepth, stats, progress, events,
                   returned, extraKeywords, mock, previous, applied>>

\* one turn of the loop over the discovered domains, up to the call that queues
\* a new domain for the other kind of scan
NextDiscovered(p) ==
    /\ dp # <<>> /\ procs[p].pc = "loop"
    /\ LET domain == Head(procs[p].pending)
           rest == Tail(procs[p].pending)
           other == IF p[1] = "passive" THEN "cert" ELSE "passive"
           queues == IF p[1] = "passive" THEN dp.enableCert ELSE dp.enablePassive
           next == IF rest = <<>> THEN Goroutine("idle", 0)
                   ELSE [procs[p] EXCEPT !.pending = rest]
       IN IF ~IsRelevantDomain(dp.keywords, domain)
          THEN /\ procs' = [procs EXCEPT ![p] = next]
               /\ UNCHANGED <<dp, runs>>
          ELSE /\ dp.mu = <<>>
               /\ IF domain \in dp.allDomains
                  THEN /\ procs' = [procs EXCEPT ![p] = next]
                       /\ UNCHANGED <<dp, runs>>
                  ELSE /\ dp' = [dp EXCEPT !.allDomains = @ \cup {domain}]
                       /\ runs' = [runs EXCEPT !.found = @ \cup {domain}]
                       /\ procs' = [procs EXCEPT ![p] =
                                      IF queues
                                      THEN [procs[p] EXCEPT !.pending = rest,
                                                            !.target = domain,
                                                            !.to = other,
                                                            !.pc = "enter"]
                                      ELSE next]
    /\ UNCHANGED <<tracker, config, pc, seeds, keywords, outputDomains,
                   processedDomains, stack, calls, markDepth, stats, progress, events,
                   returned, extraKeywords, mock, previous, applied>>

\* QueueCertificate called by a passive worker, QueuePassive by a certificate worker
QueueDiscovered(p) ==
    /\ dp # <<>> /\ procs[p].pc = "enter"
    /\ Queue(p, procs[p].to, procs[p].target)
    /\ UNCHANGED <<runs, tracker, config, pc, seeds, keywords, outputDomains,
                   processedDomains, stack, calls, markDepth, stats, progress, events,
                   returned, extraKeywords, mock, previous, applied>>

\* WaitForCompletion: every tick of the idle timeout found both channels empty;
\* cancel, then wg.Wait
IdleTimeout ==
    /\ dp # <<>> /\ procs[Main].pc = "calls"
    /\ dp.queue["passive"] = <<>> /\ dp.queue["cert"] = <<>>
    /\ dp' = [dp EXCEPT !.ctxDone = TRUE]
    /\ procs' = [procs EXCEPT ![Main].pc = "wait"]
    /\ UNCHANGED <<runs, tracker, config, pc, seeds, keywords, outputDomains,
                   processedDomains, stack, calls, markDepth, stats, progress, events,
                   returned, extraKeywords, mock, previous, applied>>

\* WaitForCompletion: wg.Wait returns, and so does WaitForCompletion
WaitReturn ==
    /\ dp # <<>> /\ procs[Main].pc = "wait"
    /\ \A p \in Procs \ {Main} : procs[p].pc \in {"unstarted", "stopped"}
    /\ procs' = [procs EXCEPT ![Main].pc = "returned"]
    /\ UNCHANGED <<dp, runs, tracker, config, pc, seeds, keywords, outputDomains,
                   processedDomains, stack, calls, markDepth, stats, progress, events,
                   returned, extraKeywords, mock, previous, applied>>

\* the steps of one worker
Worker(p) ==
    \/ Receive(p)
    \/ WorkerStop(p)
    \/ ProcessMessage(p)
    \/ Discover(p)
    \/ RecordError(p)
    \/ MergeAssets(p)
    \/ NextDiscovered(p)
    \/ QueueDiscovered(p)
    \/ Send(p)

ProcessorNext ==
    \/ Start
    \/ ProcessorAddDomain
    \/ QueueSeed
    \/ Send(Main)
    \/ IdleTimeout
    \/ WaitReturn
    \/ \E p \in Procs \ {Main} : Worker(p)

ProcessorSpec == ProcessorInit /\ [][ProcessorNext]_vars

(***************************************************************************)
(* History read from calls.                                                *)
(***************************************************************************)
CallIdx == 1..Len(calls)

\* the hosts handed to the enumerator / to the prober in a phase
Targets(phase) == UNION {Range(calls[i].targets) : i \in {j \in CallIdx : calls[j].phase = phase}}

\* the hosts the passive enumerator has returned
PassiveFound == UNION {Range(calls[i].result) : i \in {j \in CallIdx : calls[j].op = "C2"}}

\* the hosts the prober has returned as new domains (SAN extraction)
SanFound == UNION {Range(calls[i].result) : i \in {j \in CallIdx : calls[j].op = "C3"}}

\* the size of the last batch handed to the prober, 0 before the first
LastProbeBatch ==
    LET c3 == {i \in CallIdx : calls[i].op = "C3"} IN
    IF c3 = {} THEN 0
    ELSE Len(calls[CHOOSE i \in c3 : \A j \in c3 : j <= i].targets)

Keys == DOMAIN outputDomains

HasSource(entry, name, type) == Source(name, type) \in Range(entry.Sources)

(***************************************************************************)
(* The claims.                                                             *)
(***************************************************************************)

\* C1: no (phase, hostname) pair is processed twice: over the whole run a hostname
\* occurs at most once among the targets of the calls of one phase (passive: the
\* enumerator; cert and http: the prober), also when a batch repeats a hostname.
C1_NoPairProcessedTwice ==
    \A i \in CallIdx, j \in CallIdx :
      \A a \in 1..Len(calls[i].targets), b \in 1..Len(calls[j].targets) :
        (calls[i].phase = calls[j].phase /\ calls[i].targets[a] = calls[j].targets[b])
          => (i = j /\ a = b)

\* a finished scan of a seed list that repeats ab.com, in which ab.com was
\* enumerated and probed
C1_Witness ==
    /\ pc = "done"
    /\ seeds = <<"ab.com", "ab.com">>
    /\ "ab.com" \in Targets("passive")
    /\ "ab.com" \in Targets("cert")

\* C2: with recursion_depth = 0 and max_domains = 0 a scan that has started
\* terminates: ScanWithOptions reaches its return, whatever the answers.
C2_Terminates ==
    (config.RecursionDepth = 0 /\ config.MaxDomains = 0)
      => [](pc = "running" => <>(pc = "done"))

\* an unbounded scan has finished after it followed the certificate cycle
\* ab.com -> x.ab.com -> ab.com
C2_Witness ==
    /\ pc = "done"
    /\ config.RecursionDepth = 0 /\ config.MaxDomains = 0
    /\ \E i \in CallIdx, j \in CallIdx :
         /\ i < j
         /\ calls[i].op = "C3" /\ "ab.com" \in Range(calls[i].targets)
         /\ "x.ab.com" \in Range(calls[i].result)
         /\ calls[j].op = "C3" /\ calls[j].targets = <<"x.ab.com">>
         /\ "ab.com" \in Range(calls[j].result)

\* C3: if recursion_depth = D > 0, nothing is marked processed, enumerated or
\* probed at a depth above D.
C3_DepthBound ==
    config.RecursionDepth > 0 =>
      /\ \A m \in markDepth : m[2] <= config.RecursionDepth
      /\ \A i \in CallIdx : calls[i].depth <= config.RecursionDepth

\* a depth-limited scan that has processed a SAN host one hop below the seeds
C3_Witness ==
    /\ config.RecursionDepth > 0
    /\ \E m \in markDepth : m[2] = 1
    /\ \E i \in CallIdx : calls[i].depth = 1

\* C4 (as claimed): if max_domains = N > 0 the map never holds more than N plus
\* the size of the last batch handed to the prober.
C4_MaxDomainsBound ==
    config.MaxDomains > 0 =>
      NumDomains(outputDomains) <= config.MaxDomains + LastProbeBatch

\* C5: a hostname that is in the output, was probed or was enumerated, and that
\* is neither a seed nor a passive result (its only provenance is SAN
\* extraction), matches the keywords of the run; zz.com never gets in on
\* keywords {ab}.
C5_SanHostsMatchKeywords ==
    /\ \A h \in (Keys \cup Targets("passive") \cup Targets("cert") \cup Targets("http")) :
         (h \notin Range(seeds) /\ h \notin PassiveFound) => MatchesKeywords(h, keywords)
    /\ keywords = {"ab"} =>
         "zz.com" \notin (Keys \cup Targets("passive") \cup Targets("cert") \cup Targets("http"))

\* on keywords {ab} a probed certificate listed x.ab.com and zz.com; x.ab.com, known
\* from that certificate only, is in the output
C5_Witness ==
    /\ keywords = {"ab"}
    /\ \E i \in CallIdx :
         /\ calls[i].op = "C3" /\ calls[i].ok
         /\ "x.ab.com" \in Range(calls[i].result)
    /\ "x.ab.com" \in Keys
    /\ "x.ab.com" \notin PassiveFound

\* C6 (as claimed): every key of outputDomains passes keyword relevance.
C6_AllKeysRelevant == \A k \in Keys : MatchesKeywords(k, keywords)

\* C6 (amended): every key of outputDomains is a seed, a hostname the passive
\* enumerator returned, or passes keyword relevance.
C6_SanKeysRelevant ==
    \A k \in Keys :
      k \in Range(seeds) \/ k \in PassiveFound \/ MatchesKeywords(k, keywords)

\* operator keywords are present and a key that is neither a seed nor a passive
\* result got in through a certificate
C6_Witness ==
    /\ "zz" \in keywords
    /\ \E k \in Keys : k \notin Range(seeds) /\ k \notin PassiveFound /\ k \in SanFound

\* C7 (as claimed): no key is a wildcard pattern and no key has an uppercase
\* character.
C7_KeysNormalised ==
    \A k \in Keys : ~HasPrefix(k, "*.") /\ k = ToLower(k)

\* C8 (as claimed): at run completion every seed is a key of the output.
C8_SeedsInOutput ==
    pc = "done" => \A i \in 1..Len(seeds) : seeds[i] \in Keys

\* C9 (as claimed): every hostname handed to the prober has an entry once the
\* phase call has returned; the entry of a host that did not answer is not live
\* and carries (traced, passive).
C9_ProbedHaveEntries ==
    /\ \A h \in (Targets("cert") \cup Targets("http")) : h \in Keys
    /\ \A k \in Keys :
         (k \in (Targets("cert") \cup Targets("http")) /\ ~outputDomains[k].IsLive)
           => HasSource(outputDomains[k], "traced", "passive")

\* C10 (as claimed): merging a result for a hostname that has an entry changes
\* status, url and ip only if it turns is_live from false to true; in particular
\* a live entry stays live.
C10_FirstArrivalWins ==
    [][\A k \in Keys :
         LET old == outputDomains[k]
             new == outputDomains'[k]
         IN (<<old.Status, old.URL, old.IP, old.IsLive>>
               # <<new.Status, new.URL, new.IP, new.IsLive>>)
              => (~old.IsLive /\ new.IsLive)]_vars

\* C11: every entry with is_live = true has status > 0, a non-empty url and a
\* source of kind http, also after several merges for the same hostname.
C11_LiveEntriesComplete ==
    \A k \in Keys :
      outputDomains[k].IsLive =>
        /\ outputDomains[k].Status > 0
        /\ outputDomains[k].URL # ""
        /\ \E i \in 1..Len(outputDomains[k].Sources) : outputDomains[k].Sources[i].Type = "http"

\* ab.com was probed in the http phase and in the cert phase with differing
\* answers (a certificate first, none later) and is live
C11_Witness ==
    /\ "ab.com" \in Targets("http") /\ "ab.com" \in Targets("cert")
    /\ "ab.com" \in Keys
    /\ outputDomains["ab.com"].IsLive
    /\ outputDomains["ab.com"].Certificate = <<>>
    /\ HasSource(outputDomains["ab.com"], "certificate", "certificate")

\* C12: every key of the output has at least one source record.
C12_EveryKeyHasSource == \A k \in Keys : Len(outputDomains[k].Sources) >= 1

\* the output holds an entry a passive result created, an entry the merge created
\* for a host that answered, and the stub of a host that did not answer
C12_Witness ==
    /\ \E k \in Keys : outputDomains[k].Sources = <<Source("subfinder", "passive")>>
    /\ \E k \in Keys : /\ outputDomains[k].Sources[1] = Source("traced", "passive")
                        /\ outputDomains[k].IsLive
    /\ \E k \in Keys : outputDomains[k].Sources = <<Source("traced", "passive")>>

\* C13: the source list of an entry never holds the same (name, kind) pair twice,
\* and a step only appends to it: the records already there keep their order.
C13_SourcesUnique ==
    /\ [](\A k \in Keys :
            \A i \in 1..Len(outputDomains[k].Sources), j \in 1..Len(outputDomains[k].Sources) :
              outputDomains[k].Sources[i] = outputDomains[k].Sources[j] => i = j)
    /\ [][\A k \in Keys :
             /\ Len(outputDomains[k].Sources) <= Len(outputDomains'[k].Sources)
             /\ SubSeq(outputDomains'[k].Sources, 1, Len(outputDomains[k].Sources))
                  = outputDomains[k].Sources]_vars

\* ab.com was merged from two probe calls that succeeded, http phase and cert
\* phase, both carrying (traced, passive) and (httpx, http)
C13_Witness ==
    /\ \E i \in CallIdx, j \in CallIdx :
         /\ i < j /\ calls[i].ok /\ calls[j].ok
         /\ calls[i].phase = "http" /\ "ab.com" \in Range(calls[i].targets)
         /\ calls[j].phase = "cert" /\ "ab.com" \in Range(calls[j].targets)
    /\ "ab.com" \in Keys
    /\ outputDomains["ab.com"].Sources = <<Source("traced", "passive"), Source("httpx", "http")>>

\* C14: outputDomains and processed only grow: no step removes a key of the map or
\* a (phase, hostname) pair of the processed set, also once max_domains is reached.
C14_OnlyGrow ==
    [][/\ DOMAIN outputDomains \subseteq DOMAIN outputDomains'
       /\ processedDomains \subseteq processedDomains']_vars

\* a scan with max_domains = 1 went past the cap and ran to its end with the
\* entries in place
C14_Witness ==
    /\ pc = "done"
    /\ config.MaxDomains = 1
    /\ NumDomains(outputDomains) >= 2
    /\ processedDomains # {}

\* C15: with enable_passive = false the enumerator is never called and no entry
\* has the source (subfinder, passive); the prober alone runs, on the seeds and on
\* what SAN extraction returned, and on the seeds alone without enable_certificate.
C15_PassiveGate ==
    ~config.EnablePassive =>
      /\ \A i \in CallIdx : calls[i].op = "C3"
      /\ \A k \in Keys : ~HasSource(outputDomains[k], "subfinder", "passive")
      /\ (Targets("http") \cup Targets("cert")) \subseteq (Range(seeds) \cup SanFound)
      /\ ~config.EnableCertificate => (Targets("http") \cup Targets("cert")) \subseteq Range(seeds)

\* a scan without passive discovery has finished after it probed a SAN host one
\* hop below the seeds
C15_Witness ==
    /\ pc = "done"
    /\ ~config.EnablePassive
    /\ \E i \in CallIdx : calls[i].depth = 1 /\ calls[i].ok
    /\ Keys # {}

\* C16 (as claimed): with enable_certificate = false no entry has a certificate
\* field and every key is a seed or a hostname the passive enumerator returned.
C16_NoCertificateAtAll ==
    ~config.EnableCertificate =>
      \A k \in Keys :
        /\ outputDomains[k].Certificate = <<>>
        /\ k \in Range(seeds) \/ k \in PassiveFound

\* C16 (amended): with enable_certificate = false the prober is never asked for
\* new domains and returns none, and every key is a seed or a hostname the passive
\* enumerator returned.
C16_NoSanKeys ==
    ~config.EnableCertificate =>
      /\ SanFound = {}
      /\ \A i \in CallIdx : calls[i].op = "C3" => calls[i].phase = "http"
      /\ \A k \in Keys : k \in Range(seeds) \/ k \in PassiveFound

\* without certificate discovery the seed ab.com answered the liveness probe over
\* TLS with a certificate that lists other hosts, and it is the only key
C16_Witness ==
    /\ ~config.EnableCertificate
    /\ pc = "done"
    /\ "ab.com" \in Keys
    /\ outputDomains["ab.com"].Certificate # <<>>
    /\ Keys = {"ab.com"}

\* C17 (as claimed): with enable_certificate = false every seed is handed to the
\* prober at least once before the scan ends, with or without passive discovery.
C17_SeedsProbedWithoutCertificate ==
    (pc = "done" /\ ~config.EnableCertificate) =>
      \A i \in 1..Len(seeds) : seeds[i] \in (Targets("http") \cup Targets("cert"))

\* C18: with recursive = false neither the enumerator nor the prober is called on
\* a hostname first seen as a certificate SAN: every (phase, hostname) pair is
\* processed at depth 0 and every target is a seed or a passive result.
C18_NoRecursionOnSans ==
    ~config.Recursive =>
      /\ \A m \in markDepth : m[2] = 0
      /\ \A i \in CallIdx : calls[i].depth = 0
      /\ (Targets("passive") \cup Targets("cert") \cup Targets("http"))
            \subseteq (Range(seeds) \cup PassiveFound)

\* a non-recursive scan has finished; a probe returned the SAN host x.ab.com,
\* which no source but the certificate reported
C18_Witness ==
    /\ pc = "done"
    /\ ~config.Recursive
    /\ "x.ab.com" \in SanFound
    /\ "x.ab.com" \notin PassiveFound

\* C19 (as claimed): with recursive = false, or with recursion_depth = 1, every
\* SAN hostname a probe returned is a key of the final output.
C19_SansMergedWithoutRecursion ==
    (pc = "done" /\ (~config.Recursive \/ config.RecursionDepth = 1)) =>
      SanFound \subseteq Keys

\* C20 (as claimed): in a recursive run without bounds every SAN hostname a probe
\* returned is, at the end, a key of the output and was itself handed to the
\* prober.
C20_SansProbedAndMerged ==
    (pc = "done" /\ config.Recursive /\ config.RecursionDepth = 0 /\ config.MaxDomains = 0) =>
      \A h \in SanFound : h \in Keys /\ h \in (Targets("cert") \cup Targets("http"))

\* a step in which a C2 or C3 call fails
FailedCallStep ==
    /\ Len(calls') = Len(calls) + 1
    /\ ~calls'[Len(calls')].ok

\* the hosts the recursion loops have taken up: marked under some prefix
TakenUp(host) ==
    \E prefix \in {"passive", "cert", "http"} : (prefix \o ":" \o host) \in processedDomains

\* C21: a failed C2 or C3 call abandons only its own subtree: a scan with seeds
\* returns a non-nil result and a nil error whatever failed; the failing step
\* leaves every entry of the output as it was and every enclosing frame, with the
\* SAN hosts its recursion loop still has to visit, in place; and at the end every
\* SAN host handed to a recursion loop was taken up unless max domains was reached
C21_FailureAbandonsOnlySubtree ==
    /\ [](pc = "done" /\ Len(seeds) > 0 => returned = <<Return(FALSE, "nil")>>)
    /\ [][FailedCallStep =>
            /\ outputDomains' = outputDomains
            /\ Len(stack') >= Len(stack) - 1
            /\ SubSeq(stack', 1, Len(stack) - 1) = SubSeq(stack, 1, Len(stack) - 1)]_vars
    /\ [](pc = "done" =>
            \A i \in 1..Len(calls) :
                (calls[i].phase = "cert" /\ calls[i].ok /\ ~StopBeforeRecursion(calls[i].depth))
                => \A k \in 1..Len(calls[i].result) :
                       TakenUp(calls[i].result[k]) \/ MaxDomainsReached(outputDomains))

\* the scan has returned; a call made for one SAN host of a recursion loop failed
\* after entries had been merged, and a call for a later SAN host of the same loop
\* was made after it
C21_Witness ==
    /\ pc = "done"
    /\ returned = <<Return(FALSE, "nil")>>
    /\ NumDomains(outputDomains) > 0
    /\ \E i, j, l \in 1..Len(calls) :
         /\ i < j /\ j < l
         /\ calls[i].phase = "cert" /\ calls[i].ok /\ Len(calls[i].result) >= 2
         /\ ~calls[j].ok /\ calls[j].depth = calls[i].depth + 1
         /\ calls[j].targets = <<calls[i].result[1]>>
         /\ calls[l].depth = calls[i].depth + 1
         /\ calls[l].targets = <<calls[i].result[2]>>

\* C22: a scan of an empty seed list returns a nil result and an InvalidConfig
\* error in its first step, and no C2 call, no C3 call and no progress event
\* has happened
C22_EmptySeedsRejected ==
    /\ [](pc = "done" /\ Len(seeds) = 0 =>
            /\ returned = <<Return(TRUE, "ErrInvalidConfig")>>
            /\ calls = <<>>
            /\ events = <<>>
            /\ outputDomains = <<>>)
    /\ [][returned = <<>> /\ returned' = <<Return(TRUE, "ErrInvalidConfig")>>
            => pc = "idle" /\ pc' = "done"]_vars

\* an empty seed list was rejected by a scanner that has a progress sink
C22_Witness ==
    /\ pc = "done"
    /\ Len(seeds) = 0
    /\ progress
    /\ returned = <<Return(TRUE, "ErrInvalidConfig")>>

\* the probe results merged so far: one for each target of each answered C3 call
MergedProbeResults ==
    UNION {{<<i, k>> : k \in 1..Len(calls[i].targets)} :
               i \in {j \in 1..Len(calls) : calls[j].op = "C3" /\ calls[j].ok}}

EventsNamed(ev) == {i \in 1..Len(events) : events[i].ev = ev}

\* a step in which a C3 call is answered
AnsweredProbeStep ==
    /\ Len(calls') = Len(calls) + 1
    /\ calls'[Len(calls')].op = "C3"
    /\ calls'[Len(calls')].ok

\* C23: with a progress sink the events of a scan are: one on_start(seeds,
\* keywords), first of all and before any C2 or C3 call; one on_progress for each
\* merged probe result, reported in the step that merges it; one
\* on_end(final result), last of all, once the scan has returned; nothing after
\* it. Without a sink there is no event
C23_EventSequence ==
    /\ [](~progress => events = <<>>)
    /\ [](progress /\ pc # "idle" /\ Len(seeds) > 0 =>
            /\ EventsNamed("on_start") = {1}
            /\ events[1] = OnStart(seeds, keywords)
            /\ Cardinality(EventsNamed("on_progress")) = Cardinality(MergedProbeResults)
            /\ EventsNamed("on_end") = IF pc = "done" THEN {Len(events)} ELSE {}
            /\ pc = "done" => events[Len(events)] = OnEnd(stats))
    /\ [][progress /\ pc = "running" /\ pc' = "running" =>
            /\ Len(events') >= Len(events)
            /\ SubSeq(events', 1, Len(events)) = events
            /\ \A i \in (Len(events) + 1)..Len(events') : events'[i].ev = "on_progress"
            /\ Len(events') - Len(events)
                 = IF AnsweredProbeStep THEN Len(calls'[Len(calls')].targets) ELSE 0]_vars
    /\ [][pc = "idle" /\ pc' = "running" => calls = <<>> /\ calls' = <<>>]_vars
    /\ [][pc = "done" => events' = events]_vars

\* a scan with a sink has returned; between on_start and on_end it reported the
\* results of at least two answered C3 calls
C23_Witness ==
    /\ progress
    /\ pc = "done"
    /\ Cardinality(EventsNamed("on_progress")) >= 2
    /\ Cardinality({j \in 1..Len(calls) : calls[j].op = "C3" /\ calls[j].ok}) >= 2
    /\ events[Len(events)].ev = "on_end"

\* an output mapping with every source list read as a set
ModuloSourceOrder(out) == [d \in DOMAIN out |-> [out[d] EXCEPT !.Sources = Range(@)]]

C25_NoNewKeyFromOwnOutput ==
    (pc = "done" /\ previous # <<>> /\ previous[1].kind = "keys") =>
        DOMAIN outputDomains \subseteq DOMAIN previous[1].Domains

\* C26: LoadKeywords returns the seed keywords together with the extras, each
\* lower-cased and trimmed, without the empty ones: the empty string is never a
\* keyword, whatever the extras, an extra of white space only included
C26_NoEmptyKeyword ==
    (applied # <<>> /\ applied[1].fn = "LoadKeywords") =>
        /\ "" \notin applied[1].value
        /\ applied[1].value =
              ExtractKeywordsFromDomains(applied[1].args[1])
                \cup ({ToLower(TrimSpace(k)) : k \in Range(applied[1].args[2])} \ {""})

\* C27: ExtractKeywordsFromDomains returns no keyword only for an empty list of
\* seeds: a seed whose organisation label has one character, or a seed that is
\* itself a public suffix, still yields a keyword
C27_KeywordForEverySeedList ==
    (applied # <<>> /\ applied[1].fn = "ExtractKeywordsFromDomains") =>
        (applied[1].value = {} => applied[1].args[1] = <<>>)

\* where the name d ends once its longest public suffix, with the dot before it,
\* is taken off: 0 if d is itself a suffix, the end of d if it has none
StemEnd(d) ==
    LET lens == {Len(t) : t \in {u \in TLDs : d = u \/ HasSuffix(d, "." \o u)}} IN
    IF lens = {} THEN Len(d)
    ELSE IF Len(d) \in lens THEN 0
    ELSE Len(d) - (CHOOSE l \in lens : \A k \in lens : k <= l) - 1

\* the runs of d[1..n] of two or more characters that hold no '.', '-' or '_',
\* cannot be made longer, and lie in the last label of d[1..n]
LabelTokens(d, n) ==
    {SubSeq(d, a, b) : <<a, b>> \in
        {ab \in (1..n) \X (1..n) :
            /\ ab[2] - ab[1] + 1 >= 2
            /\ \A k \in ab[1]..ab[2] : Char(d, k) \notin {".", "-", "_"}
            /\ ab[1] = 1 \/ Char(d, ab[1] - 1) \in {".", "-", "_"}
            /\ ab[2] = n \/ Char(d, ab[2] + 1) \in {"-", "_"}
            /\ \A k \in (ab[2] + 1)..n : Char(d, k) # "."}}

\* the tokens of one seed
SeedTokens(seed) == UNION {LabelTokens(d, StemEnd(d)) : d \in {ToLower(seed)}}

\* seed lists and their keywords
Examples ==
    { <<<<"api.apple.co.uk">>, {"apple"}>>,
      <<<<"rolls-royce.co.uk">>, {"rolls", "royce"}>>,
      <<<<"API.Example.CO.UK">>, {"example"}>>,
      <<<<"apple.com", "apple.co.uk">>, {"apple"}>>,
      <<<<"foo.co.uk.com">>, {"uk"}>>,
      <<<<"example.local">>, {"local"}>> }

OccursIgnoringCase(s, k) ==
    \E i \in 1..(Len(s) - Len(k) + 1) :
        \A j \in 1..Len(k) : LowerChar(Char(s, i + j - 1)) = LowerChar(Char(k, j))

\* C29: MatchesKeywords is true for an empty keyword list, and otherwise true
\* exactly when some keyword occurs in the hostname, case ignored
C29_MatchesIffSubstring ==
    (applied # <<>> /\ applied[1].fn = "MatchesKeywords") =>
        applied[1].value =
            (\/ applied[1].args[2] = {}
             \/ \E k \in applied[1].args[2] : OccursIgnoringCase(applied[1].args[1], k))

\* a hostname in upper case was matched by a keyword in lower case
C29_Witness ==
    /\ applied # <<>>
    /\ applied[1].fn = "MatchesKeywords"
    /\ applied[1].args = <<"STATUS.Apple.COM", {"apple"}>>
    /\ applied[1].value = TRUE

\* C30: containsKeyword looks at the organisation label only: it is true exactly
\* when the keyword is one of the tokens of the domain or occurs, case ignored,
\* in the label left of the public suffix, so not for a keyword found only in a
\* subdomain label; it is false for the empty domain and true for the empty
\* keyword and any domain that is not empty
C30_OrganizationLabelOnly ==
    (applied # <<>> /\ applied[1].fn = "containsKeyword") =>
        /\ applied[1].args[1] # "" =>
              applied[1].value =
                  (\/ ToLower(applied[1].args[2]) \in SeedTokens(applied[1].args[1])
                   \/ OccursIgnoringCase(getOrganizationPart(applied[1].args[1]),
                                         applied[1].args[2]))
        /\ applied[1].args \in {<<"iphone.dev.example.com", "iphone">>,
                                <<"status.microsoft.com", "apple">>}
              => applied[1].value = FALSE
        /\ applied[1].args[1] = "" => applied[1].value = FALSE
        /\ (applied[1].args[1] # "" /\ applied[1].args[2] = "") => applied[1].value = TRUE

\* C31: the recursion loop hands a SAN host of more than two labels to the
\* certificate scan and a host of at most two labels to the passive scan, so
\* every hostname passed to the enumerator is a seed or a SAN host of at most two
\* labels
C31_DispatchByLabelCount ==
    /\ [](\A h \in Targets("passive") :
             \/ h \in Range(seeds)
             \/ /\ h \in SanFound
                /\ Cardinality({i \in 1..Len(h) : Char(h, i) = "."}) + 1 <= 2)
    /\ [][(stack # <<>> /\ Len(stack') = Len(stack) + 1 /\ Top.fn = "recurse") =>
            /\ Len(stack'[Len(stack')].domains) = 1
            /\ stack'[Len(stack')].domains[1] = Top.domains[1]
            /\ stack'[Len(stack')].fn =
                  IF Cardinality({i \in 1..Len(Top.domains[1]) :
                                     Char(Top.domains[1], i) = "."}) + 1 > 2
                  THEN "cert" ELSE "passive"]_vars

\* of the SAN hosts of one certificate, x.ab.com was probed in a deeper
\* certificate scan and ab.net was handed to the enumerator
C31_Witness ==
    /\ \E i \in CallIdx :
         calls[i].op = "C3" /\ calls[i].depth > 0 /\ calls[i].targets = <<"x.ab.com">>
    /\ \E i \in CallIdx :
         calls[i].op = "C2" /\ calls[i].depth > 0 /\ calls[i].targets = <<"ab.net">>
    /\ "x.ab.com" \notin Targets("passive")

\* C32: the keywords are those loaded from the seeds and the extra keywords of
\* the request; every enumerator and prober call is made with that set in place,
\* and no step after the start of the scan changes it, whatever was discovered
C32_KeywordsDerivedOnce ==
    /\ [](pc = "running" => keywords = LoadKeywords(seeds, extraKeywords))
    /\ [][pc = "running" => keywords' = keywords]_vars
    /\ [][calls' # calls =>
            /\ keywords = LoadKeywords(seeds, extraKeywords)
            /\ keywords' = keywords]_vars

\* the scan of ab.com with the extra keyword zz has finished: zz.com and x.ab.com
\* were discovered and probed below depth 0, and the keywords are still {ab, zz}
C32_Witness ==
    /\ pc = "done"
    /\ keywords = {"ab", "zz"}
    /\ {"x.ab.com", "zz.com"} \subseteq Keys
    /\ \E i \in CallIdx : calls[i].depth > 0 /\ calls[i].targets = <<"zz.com">>

\* C33: two scans of the same request with the same configuration and the same
\* deterministic enumerator and prober end with the same set of output keys,
\* whatever the order in which each visited the new domains of its probe batches
C33_KeysIndependentOfOrder ==
    (pc = "done" /\ previous # <<>> /\ previous[1].kind = "same") =>
        Keys = DOMAIN previous[1].Domains

\* C34: every on_progress event reports the size of the output mapping and the
\* number of its live entries at the moment of the event: the last event of a
\* merging step carries the counts of the mapping after the step, and no event
\* reports more live hosts than known hosts
C34_ProgressCountsTheMap ==
    /\ [](\A i \in EventsNamed("on_progress") : events[i].live <= events[i].total)
    /\ [][(Len(events') > Len(events) /\ events'[Len(events')].ev = "on_progress") =>
            events'[Len(events')] = OnProgress(NumDomains(outputDomains'),
                                               countLiveDomainsFromMap(outputDomains'))]_vars

\* C39: a tracked domain is absent from GetPendingCertificate exactly when
\* IsCertificateCompleted holds for it on every required port
C39_PendingIffPortMissing ==
    \A domain \in tracker.allDomains :
        (domain \notin GetPendingCertificate(tracker))
          <=> (\A i \in 1..Len(tracker.requiredPorts) :
                  IsCertificateCompleted(tracker, domain, tracker.requiredPorts[i]))

\* C35: whatever the interleaving of the workers and however often a domain was
\* queued, passive discovery is run at most once for a domain and certificate
\* analysis is run at most once for a domain
C35_AtMostOncePerDomain ==
    \A q \in {"passive", "cert"} :
        \A i \in 1..Len(runs[q]) : \A j \in 1..Len(runs[q]) :
            runs[q][i] = runs[q][j] => i = j

\* two workers hold a message for ab.com each: one has run the discovery, the
\* other found the domain processed and skips the message
C35_Witness ==
    \E q \in {"passive", "cert"} : \E p \in WorkersOf(q) : \E o \in WorkersOf(q) :
        /\ p # o
        /\ procs[p].msg = "ab.com" /\ procs[p].pc \in {"merge", "loop", "enter", "send"}
        /\ procs[o].msg = "ab.com" /\ procs[o].pc = "lock"
        /\ Cardinality({i \in 1..Len(runs[q]) : runs[q][i] = "ab.com"}) = 1

\* C36: a call of QueuePassive or QueueCertificate that waits at its full channel
\* with the mutex held can still complete: the context is not cancelled while a
\* channel is full, so some worker of the receiving queue must be able to receive,
\* that is, not all of them stand at a Lock of the mutex the caller holds
C36_BlockedSendCompletes ==
    \A p \in Procs :
        (procs[p].pc = "send" /\ Len(dp.queue[procs[p].to]) >= QueueCapacity
           /\ ~dp.ctxDone)
        => \E w \in WorkersOf(procs[p].to) :
              ~ \/ procs[w].pc \in {"lock", "fail", "enter"}
                \/ procs[w].pc = "merge" /\ w[1] = "cert"
                \/ /\ procs[w].pc = "loop"
                   /\ IsRelevantDomain(dp.keywords, Head(procs[w].pending))

\* C37: when WaitForCompletion has returned, no message is left in the passive or
\* in the certificate queue and no worker is working on a message
C37_ReturnsWhenAllProcessed ==
    procs[Main].pc = "returned" =>
        /\ dp.queue["passive"] = <<>>
        /\ dp.queue["cert"] = <<>>
        /\ \A w \in Procs \ {Main} : procs[w].pc \in {"idle", "stopped", "unstarted"}

\* C38: with certificate analysis enabled every domain that a discovery added to
\* allDomains gets its certificate analysis: once the workers are all idle with
\* both queues empty, and the context not cancelled, nothing more is on its way,
\* so by then every such domain has been taken up by a certificate worker
C38_DiscoveredDomainsAnalysed ==
    (/\ dp.enableCert
     /\ ~dp.ctxDone
     /\ dp.queue["passive"] = <<>>
     /\ dp.queue["cert"] = <<>>
     /\ \A w \in Procs \ {Main} : procs[w].pc = "idle"
     /\ procs[Main].pc = "calls")
    => runs.found \subseteq dp.processed["cert"]

====
